---- MODULE Spec2Model ----
(***************************************************************************)
(* PubMed MCP server (src/server.py) and the simple HTTP client            *)
(* (src/app.py): document normalisation, related-id resolution, query      *)
(* augmentation and rendering.                                             *)
(*                                                                         *)
(* A document node (the output of xmltodict.parse) is a tagged value:      *)
(*   Str(s)   a Python str, s the sequence of its characters               *)
(*   Dict(m)  a Python dict, m a function from key names to nodes          *)
(*   List(l)  a Python list, l a sequence of nodes                         *)
(*   None     Python None (xmltodict's value for an empty element)         *)
(* Raise stands for "the evaluation raised an exception".                  *)
(***************************************************************************)
EXTENDS Integers, Sequences, FiniteSets, TLC

VARIABLES pc,
          pmid, link_result, similar_pmids, similar_ids,
          query, date_range, current_year, search_query,
          extractor, argument, value,
          xml_data, articles, picked, rendered,
          site, parent, children, again,
          tool, arguments, max_results, sort_order, requests, pmids, total_count, response,
          fault, search_result,
          config, invocations, frames

linkVars == <<pmid, link_result, similar_pmids, similar_ids>>
queryVars == <<query, date_range, current_year, search_query>>
extractVars == <<extractor, argument, value>>
parseVars == <<xml_data, articles, picked, rendered>>
normVars == <<site, parent, children, again>>
soloVars == <<tool, arguments, max_results, sort_order, requests, pmids, total_count, response,
             fault, search_result>>
concVars == <<config, invocations, frames>>
opsVars == <<soloVars, concVars>>
vars == <<pc, linkVars, queryVars, extractVars, parseVars, normVars, opsVars>>

(***************************************************************************)
(* Python values                                                           *)
(***************************************************************************)
Str(s) == [k |-> "str", v |-> s]
Dict(m) == [k |-> "dict", v |-> m]
List(l) == [k |-> "list", v |-> l]
None == [k |-> "none", v |-> <<>>]
Raise == [k |-> "raise", v |-> <<>>]

PyInt(n) == [k |-> "int", v |-> n]
\* an exception with the text str() gives for it
Fault(message) == [k |-> "raise", v |-> message]

IsRaise(x) == x.k = "raise"
IsList(x) == x.k = "list"
IsDict(x) == x.k = "dict"
IsStr(x) == x.k = "str"

\* bool(x): empty str, dict, list and None are falsy
Truthy(x) ==
    CASE x.k = "str" -> x.v # <<>>
      [] x.k = "list" -> x.v # <<>>
      [] x.k = "dict" -> DOMAIN x.v # {}
      [] OTHER -> FALSE

\* d.get(key, default): AttributeError unless d is a dict
Get(d, key, default) ==
    IF IsDict(d)
    THEN IF key \in DOMAIN d.v THEN d.v[key] ELSE default
    ELSE Raise

\* d[key] for a str key: KeyError on a dict without it, TypeError otherwise
Index(d, key) ==
    IF IsDict(d) /\ key \in DOMAIN d.v THEN d.v[key] ELSE Raise

\* `key in d` raises TypeError when d is None
ContainsRaises(d) == d.k = "none"

\* `key in d`: the texts of the model never spell a key name, so the
\* substring test on a str and the element test on a list are False
Contains(key, d) == IsDict(d) /\ key \in DOMAIN d.v

\* the one-key and two-key dicts
D1(k1, v1) == Dict(k1 :> v1)
D2(k1, v1, k2, v2) == Dict((k1 :> v1) @@ (k2 :> v2))

\* `for x in node`: the elements of a list, the characters of a str,
\* TypeError on None (a dict is never iterated in the modelled code)
Iter(node) ==
    CASE node.k = "list" -> List(node.v)
      [] node.k = "str" -> List([i \in 1..Len(node.v) |-> Str(<<node.v[i]>>)])
      [] OTHER -> Raise

(***************************************************************************)
(* Related-id resolution, server.py _get_similar_articles lines 361-380    *)
(***************************************************************************)
RECURSIVE ServerLinkIdsKeepOrigin(_, _)
\* the comprehension with its `!= pmid` condition dropped
ServerLinkIdsKeepOrigin(links, origin) ==
    IF links = <<>> THEN List(<<>>)
    ELSE LET id == Index(Head(links), "Id")
             rest == ServerLinkIdsKeepOrigin(Tail(links), origin)
         IN  IF IsRaise(id) \/ IsRaise(rest) THEN Raise
             ELSE List(<<id>> \o rest.v)

RECURSIVE ServerLinkIds(_, _)
\* [link["Id"] for link in links if link["Id"] != pmid]
ServerLinkIds(links, origin) ==
    IF links = <<>> THEN List(<<>>)
    ELSE LET id == Index(Head(links), "Id")
             rest == ServerLinkIds(Tail(links), origin)
         IN  IF IsRaise(id) \/ IsRaise(rest) THEN Raise
             ELSE IF id # Str(origin) THEN List(<<id>> \o rest.v)
             ELSE rest

\* linkset = linkset[0] if linkset else {}   (when linkset is a list)
FirstOrEmpty(x) ==
    IF IsList(x) THEN (IF x.v # <<>> THEN x.v[1] ELSE Dict(<<>>)) ELSE x

ServerFromLinks(links, origin) ==
    IF IsList(links) THEN ServerLinkIds(links.v, origin)
    ELSE LET id == Index(links, "Id")
         IN  IF IsRaise(id) THEN Raise
             ELSE IF id # Str(origin) THEN List(<<id>>)
             ELSE List(<<>>)

ServerFromLinkSetDb(linksetdb0, origin) ==
    LET linksetdb == FirstOrEmpty(linksetdb0)
    IN  IF ContainsRaises(linksetdb) THEN Raise
        ELSE IF Contains("Link", linksetdb)
             THEN ServerFromLinks(linksetdb.v["Link"], origin)
             ELSE List(<<>>)

ServerFromLinkSet(linkset0, origin) ==
    LET linkset == FirstOrEmpty(linkset0)
    IN  IF ContainsRaises(linkset) THEN Raise
        ELSE IF Contains("LinkSetDb", linkset)
             THEN ServerFromLinkSetDb(linkset.v["LinkSetDb"], origin)
             ELSE List(<<>>)

ServerSimilarPmids(result, origin) ==
    IF ContainsRaises(result) THEN Raise
    ELSE IF ~Contains("eLinkResult", result) THEN List(<<>>)
    ELSE LET er == result.v["eLinkResult"]
         IN  IF ContainsRaises(er) THEN Raise
             ELSE IF Contains("LinkSet", er)
                  THEN ServerFromLinkSet(er.v["LinkSet"], origin)
                  ELSE List(<<>>)

(***************************************************************************)
(* Related-id resolution, app.py get_similar_articles lines 289-308        *)
(***************************************************************************)
\* if isinstance(x, dict): x = [x]
WrapDict(x) == IF IsDict(x) THEN List(<<x>>) ELSE x

RECURSIVE AppLinkIds(_, _)
AppLinkIds(links, origin) ==
    IF links = <<>> THEN List(<<>>)
    ELSE LET similar_id == Get(Head(links), "Id", None)
             rest == AppLinkIds(Tail(links), origin)
         IN  IF IsRaise(similar_id) \/ IsRaise(rest) THEN Raise
             ELSE IF Truthy(similar_id) /\ similar_id # Str(origin)
                  THEN List(<<similar_id>> \o rest.v)
                  ELSE rest

AppFromDb(db, origin) ==
    LET dbto == Get(db, "DbTo", None)
    IN  IF IsRaise(dbto) THEN Raise
        ELSE IF dbto # Str(<<"p", "u", "b", "m", "e", "d">>) THEN List(<<>>)
        ELSE LET links == Iter(WrapDict(Get(db, "Link", List(<<>>))))
             IN  IF IsRaise(links) THEN Raise
                 ELSE AppLinkIds(links.v, origin)

RECURSIVE AppFromDbs(_, _)
AppFromDbs(dbs, origin) ==
    IF dbs = <<>> THEN List(<<>>)
    ELSE LET here == AppFromDb(Head(dbs), origin)
             rest == AppFromDbs(Tail(dbs), origin)
         IN  IF IsRaise(here) \/ IsRaise(rest) THEN Raise
             ELSE List(here.v \o rest.v)

AppFromLinkSet(link_set, origin) ==
    LET link_set_db == Get(link_set, "LinkSetDb", List(<<>>))
    IN  IF IsRaise(link_set_db) THEN Raise
        ELSE LET dbs == Iter(WrapDict(link_set_db))
             IN  IF IsRaise(dbs) THEN Raise
                 ELSE AppFromDbs(dbs.v, origin)

RECURSIVE AppFromLinkSets(_, _)
AppFromLinkSets(link_sets, origin) ==
    IF link_sets = <<>> THEN List(<<>>)
    ELSE LET here == AppFromLinkSet(Head(link_sets), origin)
             rest == AppFromLinkSets(Tail(link_sets), origin)
         IN  IF IsRaise(here) \/ IsRaise(rest) THEN Raise
             ELSE List(here.v \o rest.v)

AppSimilarIds(result, origin) ==
    LET er == Get(result, "eLinkResult", Dict(<<>>))
        ls == IF IsRaise(er) THEN Raise ELSE Get(er, "LinkSet", List(<<>>))
        link_sets == IF IsRaise(ls) THEN Raise ELSE Iter(WrapDict(ls))
    IN  IF IsRaise(link_sets) THEN Raise
        ELSE AppFromLinkSets(link_sets.v, origin)

(***************************************************************************)
(* Python str operations                                                   *)
(***************************************************************************)
UPPER == <<"A", "B", "C", "D", "E", "F", "G", "H", "I", "J", "K", "L", "M",
           "N", "O", "P", "Q", "R", "S", "T", "U", "V", "W", "X", "Y", "Z">>
LOWER == <<"a", "b", "c", "d", "e", "f", "g", "h", "i", "j", "k", "l", "m",
           "n", "o", "p", "q", "r", "s", "t", "u", "v", "w", "x", "y", "z">>

LowerChar(ch) ==
    IF \E i \in 1..26 : UPPER[i] = ch
    THEN LOWER[CHOOSE i \in 1..26 : UPPER[i] = ch]
    ELSE ch

\* s.lower() on the characters of a str
LowerStr(s) == [i \in 1..Len(s) |-> LowerChar(s[i])]

DigitChars == <<"0", "1", "2", "3", "4", "5", "6", "7", "8", "9">>

\* str.isdigit() on one character of the model's (ASCII) alphabet
IsDigitChar(c) == \E d \in 1..10 : DigitChars[d] = c

\* str.isdigit(): non-empty and every character a digit
IsDigit(s) == s # <<>> /\ \A i \in 1..Len(s) : IsDigitChar(s[i])

RECURSIVE ItoA(_)
\* f"{n}" for a non-negative int n
ItoA(n) == IF n < 10 THEN <<DigitChars[n + 1]>>
           ELSE ItoA(n \div 10) \o <<DigitChars[(n % 10) + 1]>>

RECURSIVE Flatten(_)
\* the concatenation of a sequence of sequences
Flatten(ss) == IF ss = <<>> THEN <<>> ELSE Head(ss) \o Flatten(Tail(ss))

RECURSIVE JoinChars(_, _)
\* sep.join(items) on character sequences
JoinChars(sep, items) ==
    IF items = <<>> THEN <<>>
    ELSE IF Len(items) = 1 THEN items[1]
    ELSE items[1] \o sep \o JoinChars(sep, Tail(items))

\* the characters of a key name inside a repr; a key outside the table
\* stands as one item
KeyText(key) ==
    CASE key = "#text" -> <<"#", "t", "e", "x", "t">>
      [] key = "@Label" -> <<"@", "L", "a", "b", "e", "l">>
      [] key = "i" -> <<"i">>
      [] OTHER -> <<key>>

\* the keys of a dict in one fixed order (a one-key dict has only one)
KeyOrder(m) ==
    CHOOSE s \in [1..Cardinality(DOMAIN m) -> DOMAIN m] :
        \A i, j \in DOMAIN s : i # j => s[i] # s[j]

RECURSIVE Repr(_)
\* repr(x): the text str() and f-strings give for a value inside a container
Repr(x) ==
    CASE x.k = "str" -> <<"'">> \o x.v \o <<"'">>
      [] x.k = "none" -> <<"N", "o", "n", "e">>
      [] x.k = "list" ->
            <<"[">> \o JoinChars(<<",", " ">>, [i \in 1..Len(x.v) |-> Repr(x.v[i])]) \o <<"]">>
      [] x.k = "dict" ->
            LET ks == KeyOrder(x.v)
            IN  <<"{">> \o JoinChars(<<",", " ">>,
                    [i \in 1..Len(ks) |->
                        <<"'">> \o KeyText(ks[i]) \o <<"'", ":", " ">> \o Repr(x.v[ks[i]])])
                \o <<"}">>

\* str(x), also the text an f-string puts for {x}
PyStr(x) == IF IsStr(x) THEN x.v ELSE Repr(x)

\* sep.join(items): TypeError unless every item is a str
Join(sep, items) ==
    IF \A i \in 1..Len(items) : IsStr(items[i])
    THEN Str(JoinChars(sep, [i \in 1..Len(items) |-> items[i].v]))
    ELSE Raise

\* xs[:n]
Take(xs, n) == SubSeq(xs, 1, IF Len(xs) < n THEN Len(xs) ELSE n)

(***************************************************************************)
(* Field extractors, server.py lines 518-687                               *)
(***************************************************************************)
AUTHORS_NA == <<"A", "u", "t", "h", "o", "r", "s", " ", "n", "o", "t", " ", "a", "v", "a", "i", "l", "a", "b", "l", "e">>
DATE_NA == <<"D", "a", "t", "e", " ", "n", "o", "t", " ", "a", "v", "a", "i", "l", "a", "b", "l", "e">>
ET_AL == <<",", " ", "e", "t", " ", "a", "l", ".">>
EMPTY == Str(<<>>)

\* the limit of _extract_authors (lines 526 and 540)
AuthorLimit == 15
\* the limit of _extract_mesh_terms (line 676)
MeshLimit == 10

\* an entry without a last name appended as a blank name
AuthorNameKeepBlank(author) ==
    IF ~IsDict(author) THEN <<EMPTY>>
    ELSE LET last_name == Get(author, "LastName", EMPTY)
             fore_name == Get(author, "ForeName", EMPTY)
             initials == Get(author, "Initials", EMPTY)
         IN  IF ~Truthy(last_name) THEN <<EMPTY>>
             ELSE IF Truthy(fore_name)
                  THEN <<Str(PyStr(last_name) \o <<" ">> \o PyStr(fore_name))>>
             ELSE IF Truthy(initials)
                  THEN <<Str(PyStr(last_name) \o <<" ">> \o PyStr(initials))>>
             ELSE <<last_name>>

\* lines 527-538: what one author entry appends to author_names
AuthorName(author) ==
    IF ~IsDict(author) THEN <<>>
    ELSE LET last_name == Get(author, "LastName", EMPTY)
             fore_name == Get(author, "ForeName", EMPTY)
             initials == Get(author, "Initials", EMPTY)
         IN  IF ~Truthy(last_name) THEN <<>>
             ELSE IF Truthy(fore_name)
                  THEN <<Str(PyStr(last_name) \o <<" ">> \o PyStr(fore_name))>>
             ELSE IF Truthy(initials)
                  THEN <<Str(PyStr(last_name) \o <<" ">> \o PyStr(initials))>>
             ELSE <<last_name>>

\* if not isinstance(x, list): x = [x]
ListOrWrap(x) == IF IsList(x) THEN x.v ELSE <<x>>

\* the body with the suffix decided on the rendered names, not on the source list
ExtractAuthorsBodyCountNames(author_list) ==
    LET a0 == Get(author_list, "Author", List(<<>>))
    IN  IF IsRaise(a0) THEN Raise
        ELSE LET authors == ListOrWrap(a0)
                 first == Take(authors, AuthorLimit)
                 author_names == Flatten([i \in 1..Len(first) |-> AuthorName(first[i])])
                 joined == Join(<<",", " ">>, author_names)
             IN  IF Len(author_names) > AuthorLimit
                 THEN IF IsRaise(joined) THEN Raise ELSE Str(joined.v \o ET_AL)
                 ELSE IF author_names # <<>> THEN joined ELSE Str(AUTHORS_NA)

\* lines 521-543, the body of the try
ExtractAuthorsBody(author_list) ==
    LET a0 == Get(author_list, "Author", List(<<>>))
    IN  IF IsRaise(a0) THEN Raise
        ELSE LET authors == ListOrWrap(a0)
                 first == Take(authors, AuthorLimit)
                 author_names == Flatten([i \in 1..Len(first) |-> AuthorName(first[i])])
                 joined == Join(<<",", " ">>, author_names)
             IN  IF Len(authors) > AuthorLimit
                 THEN IF IsRaise(joined) THEN Raise ELSE Str(joined.v \o ET_AL)
                 ELSE IF author_names # <<>> THEN joined ELSE Str(AUTHORS_NA)

\* _extract_authors with its `except Exception` removed
ExtractAuthorsUnguarded(author_list) == ExtractAuthorsBody(author_list)

_extract_authors(author_list) ==
    LET r == ExtractAuthorsBody(author_list)
    IN  IF IsRaise(r) THEN Str(AUTHORS_NA) ELSE r

\* the body with the structured fields tried before MedlineDate
ExtractPubDateBodyYearFirst(journal_issue) ==
    LET pub_date == Get(journal_issue, "PubDate", Dict(<<>>))
    IN  IF IsRaise(pub_date) THEN Raise
        ELSE IF ~IsDict(pub_date) THEN Str(DATE_NA)
        ELSE LET year == Get(pub_date, "Year", EMPTY)
                 month == Get(pub_date, "Month", EMPTY)
                 day == Get(pub_date, "Day", EMPTY)
                 date_string == Get(pub_date, "MedlineDate", EMPTY)
                 date_parts == <<year>>
                     \o (IF Truthy(month)
                         THEN <<month>> \o (IF Truthy(day) THEN <<day>> ELSE <<>>)
                         ELSE <<>>)
             IN  IF Truthy(year) THEN Join(<<" ">>, date_parts)
                 ELSE IF Truthy(date_string) THEN date_string
                 ELSE Str(DATE_NA)

\* lines 551-570, the body of the try
ExtractPubDateBody(journal_issue) ==
    LET pub_date == Get(journal_issue, "PubDate", Dict(<<>>))
    IN  IF IsRaise(pub_date) THEN Raise
        ELSE IF ~IsDict(pub_date) THEN Str(DATE_NA)
        ELSE LET year == Get(pub_date, "Year", EMPTY)
                 month == Get(pub_date, "Month", EMPTY)
                 day == Get(pub_date, "Day", EMPTY)
                 date_string == Get(pub_date, "MedlineDate", EMPTY)
                 date_parts == <<year>>
                     \o (IF Truthy(month)
                         THEN <<month>> \o (IF Truthy(day) THEN <<day>> ELSE <<>>)
                         ELSE <<>>)
             IN  IF Truthy(date_string) THEN date_string
                 ELSE IF Truthy(year) THEN Join(<<" ">>, date_parts)
                 ELSE Str(DATE_NA)

_extract_pub_date(journal_issue) ==
    LET r == ExtractPubDateBody(journal_issue)
    IN  IF IsRaise(r) THEN Str(DATE_NA) ELSE r

\* a mapping part appended whether or not it has an inner text
AbstractPartKeepEmpty(part) ==
    IF IsDict(part)
    THEN LET label == Get(part, "@Label", EMPTY)
             text == Get(part, "#text", EMPTY)
         IN  IF Truthy(label)
             THEN <<Str(<<"*", "*">> \o PyStr(label) \o <<":", "*", "*", " ">> \o PyStr(text))>>
             ELSE <<text>>
    ELSE <<Str(PyStr(part))>>

\* lines 584-592: what one part of a structured abstract appends
AbstractPart(part) ==
    IF IsDict(part)
    THEN LET label == Get(part, "@Label", EMPTY)
             text == Get(part, "#text", EMPTY)
         IN  IF Truthy(label) /\ Truthy(text)
             THEN <<Str(<<"*", "*">> \o PyStr(label) \o <<":", "*", "*", " ">> \o PyStr(text))>>
             ELSE IF Truthy(text) THEN <<text>>
             ELSE <<>>
    ELSE <<Str(PyStr(part))>>

\* lines 578-598, the body of the try
ExtractAbstractBody(abstract_data) ==
    LET abstract_text == Get(abstract_data, "AbstractText", EMPTY)
    IN  IF IsRaise(abstract_text) THEN Raise
        ELSE IF IsList(abstract_text)
             THEN Join(<<"\n", "\n">>,
                       Flatten([i \in 1..Len(abstract_text.v) |->
                                   AbstractPart(abstract_text.v[i])]))
        ELSE IF IsDict(abstract_text) THEN Get(abstract_text, "#text", EMPTY)
        ELSE IF Truthy(abstract_text) THEN Str(PyStr(abstract_text))
        ELSE EMPTY

_extract_abstract(abstract_data) ==
    LET r == ExtractAbstractBody(abstract_data)
    IN  IF IsRaise(r) THEN EMPTY ELSE r

\* the wrap without its isinstance test
ListOrWrapTruthyAlways(x) == IF Truthy(x) THEN <<x>> ELSE <<>>

\* if not isinstance(x, list): x = [x] if x else []
ListOrWrapTruthy(x) ==
    IF IsList(x) THEN x.v ELSE IF Truthy(x) THEN <<x>> ELSE <<>>

RECURSIVE DoiScanCaseSensitive(_)
\* the loop with the type compared as written
DoiScanCaseSensitive(elocation_ids) ==
    IF elocation_ids = <<>> THEN EMPTY
    ELSE LET elocation == Head(elocation_ids)
         IN  IF ~IsDict(elocation) THEN DoiScanCaseSensitive(Tail(elocation_ids))
             ELSE LET id_type == Get(elocation, "@EIdType", EMPTY)
                      doi == Get(elocation, "#text", EMPTY)
                  IN  IF ~IsStr(id_type) THEN Raise
                      ELSE IF id_type.v = <<"d", "o", "i">> /\ Truthy(doi) THEN doi
                      ELSE DoiScanCaseSensitive(Tail(elocation_ids))

RECURSIVE DoiScan(_)
\* lines 609-617: the loop, left at the first non-empty doi
DoiScan(elocation_ids) ==
    IF elocation_ids = <<>> THEN EMPTY
    ELSE LET elocation == Head(elocation_ids)
         IN  IF ~IsDict(elocation) THEN DoiScan(Tail(elocation_ids))
             ELSE LET id_type == Get(elocation, "@EIdType", EMPTY)
                      doi == Get(elocation, "#text", EMPTY)
                  IN  IF ~IsStr(id_type) THEN Raise
                      ELSE IF LowerStr(id_type.v) = <<"d", "o", "i">> /\ Truthy(doi) THEN doi
                      ELSE DoiScan(Tail(elocation_ids))

\* lines 606-617, the body of the try
ExtractDoiBody(elocation_ids) == DoiScan(ListOrWrapTruthy(elocation_ids))

_extract_doi(elocation_ids) ==
    LET r == ExtractDoiBody(elocation_ids)
    IN  IF IsRaise(r) THEN EMPTY ELSE r

RECURSIVE KeywordScanCaseSensitive(_, _, _)
\* the loop with seen_keywords holding the texts as written
KeywordScanCaseSensitive(keywords, keyword_texts, seen_keywords) ==
    IF keywords = <<>> THEN List(keyword_texts)
    ELSE LET keyword == Head(keywords)
             text == IF IsDict(keyword) THEN Get(keyword, "#text", EMPTY)
                     ELSE Str(PyStr(keyword))
             consider == IF IsDict(keyword) THEN Truthy(text) ELSE Truthy(keyword)
         IN  IF ~consider
             THEN KeywordScanCaseSensitive(Tail(keywords), keyword_texts, seen_keywords)
             ELSE IF ~IsStr(text) THEN Raise
             ELSE IF text.v \in seen_keywords
             THEN KeywordScanCaseSensitive(Tail(keywords), keyword_texts, seen_keywords)
             ELSE KeywordScanCaseSensitive(Tail(keywords), Append(keyword_texts, text),
                                           seen_keywords \cup {text.v})

RECURSIVE KeywordScan(_, _, _)
\* lines 632-642: the loop over keywords
KeywordScan(keywords, keyword_texts, seen_keywords) ==
    IF keywords = <<>> THEN List(keyword_texts)
    ELSE LET keyword == Head(keywords)
             text == IF IsDict(keyword) THEN Get(keyword, "#text", EMPTY)
                     ELSE Str(PyStr(keyword))
             consider == IF IsDict(keyword) THEN Truthy(text) ELSE Truthy(keyword)
         IN  IF ~consider THEN KeywordScan(Tail(keywords), keyword_texts, seen_keywords)
             ELSE IF ~IsStr(text) THEN Raise
             ELSE IF LowerStr(text.v) \in seen_keywords
             THEN KeywordScan(Tail(keywords), keyword_texts, seen_keywords)
             ELSE KeywordScan(Tail(keywords), Append(keyword_texts, text),
                              seen_keywords \cup {LowerStr(text.v)})

\* lines 625-642, the body of the try
ExtractKeywordsBody(keyword_list) ==
    LET keywords == Get(keyword_list, "Keyword", List(<<>>))
    IN  IF IsRaise(keywords) THEN Raise
        ELSE KeywordScan(ListOrWrapTruthy(keywords), <<>>, {})

_extract_keywords(keyword_list) ==
    LET r == ExtractKeywordsBody(keyword_list)
    IN  IF IsRaise(r) THEN List(<<>>) ELSE r

\* lines 656-661: what one publication type appends
PubTypeText(pub_type) ==
    IF IsDict(pub_type)
    THEN LET text == Get(pub_type, "#text", EMPTY)
         IN  IF Truthy(text) THEN <<text>> ELSE <<>>
    ELSE <<Str(PyStr(pub_type))>>

\* lines 650-663, the body of the try
ExtractPublicationTypesBody(pub_type_list) ==
    LET p0 == Get(pub_type_list, "PublicationType", List(<<>>))
    IN  IF IsRaise(p0) THEN Raise
        ELSE LET pub_types == ListOrWrapTruthy(p0)
             IN  List(Flatten([i \in 1..Len(pub_types) |-> PubTypeText(pub_types[i])]))

_extract_publication_types(pub_type_list) ==
    LET r == ExtractPublicationTypesBody(pub_type_list)
    IN  IF IsRaise(r) THEN List(<<>>) ELSE r

\* lines 677-682: what one heading appends
MeshTerm(heading) ==
    IF ~IsDict(heading) THEN <<>>
    ELSE LET descriptor == Get(heading, "DescriptorName", Dict(<<>>))
         IN  IF ~IsDict(descriptor) THEN <<>>
             ELSE LET term == Get(descriptor, "#text", EMPTY)
                  IN  IF Truthy(term) THEN <<term>> ELSE <<>>

\* the body with the limit applied to the collected terms, not to the headings
ExtractMeshTermsBodyLimitTerms(mesh_list) ==
    LET m0 == Get(mesh_list, "MeshHeading", List(<<>>))
    IN  IF IsRaise(m0) THEN Raise
        ELSE LET mesh_headings == ListOrWrapTruthy(m0)
             IN  List(Take(Flatten([i \in 1..Len(mesh_headings) |->
                                      MeshTerm(mesh_headings[i])]), MeshLimit))

\* lines 671-684, the body of the try
ExtractMeshTermsBody(mesh_list) ==
    LET m0 == Get(mesh_list, "MeshHeading", List(<<>>))
    IN  IF IsRaise(m0) THEN Raise
        ELSE LET mesh_headings == Take(ListOrWrapTruthy(m0), MeshLimit)
             IN  List(Flatten([i \in 1..Len(mesh_headings) |-> MeshTerm(mesh_headings[i])]))

_extract_mesh_terms(mesh_list) ==
    LET r == ExtractMeshTermsBody(mesh_list)
    IN  IF IsRaise(r) THEN List(<<>>) ELSE r

(***************************************************************************)
(* Building records, server.py lines 429-516.  A record is the Dict the    *)
(* code returns, with the keys pmid, title, authors, journal, journal_iso, *)
(* pub_date, abstract, doi, keywords, publication_types, mesh_terms.       *)
(***************************************************************************)
\* lines 463-466 and 469-472: a scalar or the inner text of a mapping, as a
\* str, or the default when it is empty
TextOrDefault(x, default) ==
    LET inner == IF IsDict(x) THEN Get(x, "#text", EMPTY) ELSE x
    IN  IF Truthy(inner) THEN Str(PyStr(inner)) ELSE Str(default)

\* lines 456-512, the body of the try
ParseSingleBody(article_data) ==
    LET medline_citation == Get(article_data, "MedlineCitation", Dict(<<>>))
        article_info == IF IsRaise(medline_citation) THEN Raise
                        ELSE Get(medline_citation, "Article", Dict(<<>>))
        journal_info == IF IsRaise(article_info) THEN Raise
                        ELSE Get(article_info, "Journal", Dict(<<>>))
    IN  IF IsRaise(medline_citation) \/ IsRaise(article_info) \/ IsRaise(journal_info)
           \/ ~IsDict(article_info) \/ ~IsDict(journal_info)
        THEN Raise
        ELSE Dict(
            [pmid |-> TextOrDefault(Get(medline_citation, "PMID", Dict(<<>>)), <<"U", "n", "k", "n", "o", "w", "n">>),
             title |-> TextOrDefault(Get(article_info, "ArticleTitle", EMPTY),
                                     <<"N", "o", " ", "t", "i", "t", "l", "e", " ", "a", "v", "a", "i", "l", "a", "b", "l", "e">>),
             authors |-> _extract_authors(Get(article_info, "AuthorList", Dict(<<>>))),
             journal |-> Get(journal_info, "Title", Str(<<"U", "n", "k", "n", "o", "w", "n", " ", "j", "o", "u", "r", "n", "a", "l">>)),
             journal_iso |-> Get(journal_info, "ISOAbbreviation", EMPTY),
             pub_date |-> _extract_pub_date(Get(journal_info, "JournalIssue", Dict(<<>>))),
             abstract |-> _extract_abstract(Get(article_info, "Abstract", Dict(<<>>))),
             doi |-> _extract_doi(Get(article_info, "ELocationID", List(<<>>))),
             keywords |-> _extract_keywords(Get(medline_citation, "KeywordList", Dict(<<>>))),
             publication_types |->
                 _extract_publication_types(Get(article_info, "PublicationTypeList", Dict(<<>>))),
             mesh_terms |->
                 _extract_mesh_terms(Get(medline_citation, "MeshHeadingList", Dict(<<>>)))])

\* _parse_single_article with its `except Exception` removed
ParseSingleUnguarded(article_data) == ParseSingleBody(article_data)

_parse_single_article(article_data) ==
    LET r == ParseSingleBody(article_data)
    IN  IF IsRaise(r) THEN None ELSE r

RECURSIVE ParseLoop(_, _)
\* lines 443-451: the loop; an exception leaves it with the records so far
ParseLoop(pubmed_articles, acc) ==
    IF pubmed_articles = <<>> THEN List(acc)
    ELSE LET article == _parse_single_article(Head(pubmed_articles))
         IN  IF IsRaise(article) THEN List(acc)
             ELSE IF Truthy(article)
                  THEN ParseLoop(Tail(pubmed_articles), Append(acc, article))
                  ELSE ParseLoop(Tail(pubmed_articles), acc)

_parse_articles(data) ==
    LET pubmed_data == Get(data, "PubmedArticleSet", Dict(<<>>))
    IN  IF IsRaise(pubmed_data) \/ ~Truthy(pubmed_data) THEN List(<<>>)
        ELSE LET pubmed_articles == Get(pubmed_data, "PubmedArticle", List(<<>>))
             IN  IF IsRaise(pubmed_articles) THEN List(<<>>)
                 ELSE ParseLoop(ListOrWrap(pubmed_articles), <<>>)

(***************************************************************************)
(* Rendering, server.py lines 689-781.  A text is the sequence of its      *)
(* characters; the glyphs of the templates outside ASCII are written as    *)
(* one item each, "<link>", "<bullet>", "<page>", "<clipboard>",           *)
(* "<magnifier>", "<chart>", "<label>", "<microscope>".                    *)
(***************************************************************************)
RECURSIVE ReplaceAll(_, _, _)
\* s.replace(old, new)
ReplaceAll(s, old, new) ==
    LET found == {i \in 1..(Len(s) - Len(old) + 1) : SubSeq(s, i, i + Len(old) - 1) = old}
    IN  IF found = {} THEN s
        ELSE LET first == CHOOSE i \in found : \A j \in found : i <= j
             IN  SubSeq(s, 1, first - 1) \o new
                     \o ReplaceAll(SubSeq(s, first + Len(old), Len(s)), old, new)

\* the length of the abstract preview (lines 703-704)
PreviewLimit == 200

\* the preview that also cuts a text of exactly the limit
AbstractPreviewCutAtLimit(abstract) ==
    IF ~Truthy(abstract) THEN EMPTY
    ELSE IF ~IsStr(abstract) THEN Raise
    ELSE LET abstract_clean == ReplaceAll(ReplaceAll(abstract.v, <<"*", "*">>, <<>>),
                                          <<"\n", "\n">>, <<" ">>)
         IN  IF Len(abstract_clean) >= PreviewLimit
             THEN Str(<<"\n", "*", "*", "A", "b", "s", "t", "r", "a", "c", "t", ":", "*", "*", " ">> \o Take(abstract_clean, PreviewLimit) \o <<".", ".", ".">>)
             ELSE Str(<<"\n", "*", "*", "A", "b", "s", "t", "r", "a", "c", "t", ":", "*", "*", " ">> \o abstract_clean)

\* lines 700-706
AbstractPreview(abstract) ==
    IF ~Truthy(abstract) THEN EMPTY
    ELSE IF ~IsStr(abstract) THEN Raise
    ELSE LET abstract_clean == ReplaceAll(ReplaceAll(abstract.v, <<"*", "*">>, <<>>),
                                          <<"\n", "\n">>, <<" ">>)
         IN  IF Len(abstract_clean) > PreviewLimit
             THEN Str(<<"\n", "*", "*", "A", "b", "s", "t", "r", "a", "c", "t", ":", "*", "*", " ">> \o Take(abstract_clean, PreviewLimit) \o <<".", ".", ".">>)
             ELSE Str(<<"\n", "*", "*", "A", "b", "s", "t", "r", "a", "c", "t", ":", "*", "*", " ">> \o abstract_clean)

\* the links with the DOI pair left out
SummaryLinksWithoutDoi(article) ==
    <<"\n", "\n", "<link>", " ", "*", "*", "L", "i", "n", "k", "s", ":", "*", "*", "\n", "<bullet>", " ", "[", "<page>", " ", "P", "u", "b", "M", "e", "d", "]", "(", "h", "t", "t", "p", "s", ":", "/", "/", "p", "u", "b", "m", "e", "d", ".", "n", "c", "b", "i", ".", "n", "l", "m", ".", "n", "i", "h", ".", "g", "o", "v", "/">>
        \o PyStr(article.v["pmid"]) \o <<"/", ")">>

\* lines 709-713
SummaryLinks(article) ==
    <<"\n", "\n", "<link>", " ", "*", "*", "L", "i", "n", "k", "s", ":", "*", "*", "\n", "<bullet>", " ", "[", "<page>", " ", "P", "u", "b", "M", "e", "d", "]", "(", "h", "t", "t", "p", "s", ":", "/", "/", "p", "u", "b", "m", "e", "d", ".", "n", "c", "b", "i", ".", "n", "l", "m", ".", "n", "i", "h", ".", "g", "o", "v", "/">>
        \o PyStr(article.v["pmid"]) \o <<"/", ")">>
        \o (IF Truthy(article.v["doi"])
            THEN <<"\n", "<bullet>", " ", "[", "<clipboard>", " ", "D", "O", "I", "]", "(", "h", "t", "t", "p", "s", ":", "/", "/", "d", "o", "i", ".", "o", "r", "g", "/">> \o PyStr(article.v["doi"]) \o <<")">>
                 \o <<"\n", "<bullet>", " ", "[", "<magnifier>", " ", "F", "u", "l", "l", " ", "T", "e", "x", "t", "]", "(", "h", "t", "t", "p", "s", ":", "/", "/", "d", "o", "i", ".", "o", "r", "g", "/">> \o PyStr(article.v["doi"]) \o <<")">>
            ELSE <<>>)

_format_article_summary(article, index) ==
    LET abstract_preview == AbstractPreview(article.v["abstract"])
    IN  IF IsRaise(abstract_preview) THEN Raise
        ELSE Str(<<"#", "#", " ">> \o ItoA(index) \o <<".", " ">> \o PyStr(article.v["title"])
                 \o <<"\n", "\n", "*", "*", "A", "u", "t", "h", "o", "r", "s", ":", "*", "*", " ">> \o PyStr(article.v["authors"])
                 \o <<"\n", "*", "*", "J", "o", "u", "r", "n", "a", "l", ":", "*", "*", " ">> \o PyStr(article.v["journal"])
                 \o <<"\n", "*", "*", "P", "u", "b", "l", "i", "s", "h", "e", "d", ":", "*", "*", " ">> \o PyStr(article.v["pub_date"])
                 \o <<"\n", "*", "*", "P", "M", "I", "D", ":", "*", "*", " ">> \o PyStr(article.v["pmid"])
                 \o abstract_preview.v \o SummaryLinks(article) \o <<"\n">>)

\* lines 737-750 and 757: the header lines of the detail block
DetailHead(article) ==
    <<Str(<<"#", " ", "<page>", " ", "P", "u", "b", "l", "i", "c", "a", "t", "i", "o", "n", " ", "D", "e", "t", "a", "i", "l", "s", " ", "-", " ", "P", "M", "I", "D", " ">> \o PyStr(article.v["pmid"]) \o <<"\n">>),
      Str(<<"#", "#", " ">> \o PyStr(article.v["title"]) \o <<"\n">>),
      Str(<<"*", "*", "A", "u", "t", "h", "o", "r", "s", ":", "*", "*", " ">> \o PyStr(article.v["authors"]) \o <<"\n">>),
      Str(<<"*", "*", "J", "o", "u", "r", "n", "a", "l", ":", "*", "*", " ">> \o PyStr(article.v["journal"]))>>
    \o (IF Truthy(article.v["journal_iso"])
        THEN <<Str(<<"*", "*", "J", "o", "u", "r", "n", "a", "l", " ", "(", "I", "S", "O", ")", ":", "*", "*", " ">> \o PyStr(article.v["journal_iso"]))>>
        ELSE <<>>)
    \o <<Str(<<"*", "*", "P", "u", "b", "l", "i", "s", "h", "e", "d", ":", "*", "*", " ">> \o PyStr(article.v["pub_date"])),
         Str(<<"*", "*", "P", "M", "I", "D", ":", "*", "*", " ">> \o PyStr(article.v["pmid"]))>>
    \o (IF Truthy(article.v["doi"])
        THEN <<Str(<<"*", "*", "D", "O", "I", ":", "*", "*", " ">> \o PyStr(article.v["doi"]))>>
        ELSE <<>>)

\* lines 753-765
DetailLinks(article) ==
    LET p == PyStr(article.v["pmid"])
        d == PyStr(article.v["doi"])
    IN  <<Str(<<"\n", "#", "#", " ", "<link>", " ", "Q", "u", "i", "c", "k", " ", "A", "c", "c", "e", "s", "s", " ", "L", "i", "n", "k", "s">>),
          Str(<<"<bullet>", " ", "[", "<page>", " ", "*", "*", "V", "i", "e", "w", " ", "o", "n", " ", "P", "u", "b", "M", "e", "d", "*", "*", "]", "(", "h", "t", "t", "p", "s", ":", "/", "/", "p", "u", "b", "m", "e", "d", ".", "n", "c", "b", "i", ".", "n", "l", "m", ".", "n", "i", "h", ".", "g", "o", "v", "/">> \o p
              \o <<"/", ")", " ", "-", " ", "O", "f", "f", "i", "c", "i", "a", "l", " ", "P", "u", "b", "M", "e", "d", " ", "p", "a", "g", "e">>)>>
        \o (IF Truthy(article.v["doi"])
            THEN <<Str(<<"<bullet>", " ", "[", "<clipboard>", " ", "*", "*", "D", "O", "I", " ", "L", "i", "n", "k", "*", "*", "]", "(", "h", "t", "t", "p", "s", ":", "/", "/", "d", "o", "i", ".", "o", "r", "g", "/">> \o d
                       \o <<")", " ", "-", " ", "P", "u", "b", "l", "i", "s", "h", "e", "r", "'", "s", " ", "p", "a", "g", "e">>),
                   Str(<<"<bullet>", " ", "[", "<magnifier>", " ", "*", "*", "F", "u", "l", "l", " ", "T", "e", "x", "t", " ", "A", "c", "c", "e", "s", "s", "*", "*", "]", "(", "h", "t", "t", "p", "s", ":", "/", "/", "d", "o", "i", ".", "o", "r", "g", "/">> \o d
                       \o <<")", " ", "-", " ", "T", "r", "y", " ", "t", "o", " ", "a", "c", "c", "e", "s", "s", " ", "f", "u", "l", "l", " ", "p", "a", "p", "e", "r">>)>>
            ELSE <<Str(<<"<bullet>", " ", "[", "<magnifier>", " ", "*", "*", "S", "e", "a", "r", "c", "h", " ", "F", "u", "l", "l", " ", "T", "e", "x", "t", "*", "*", "]", "(", "h", "t", "t", "p", "s", ":", "/", "/", "p", "u", "b", "m", "e", "d", ".", "n", "c", "b", "i", ".", "n", "l", "m", ".", "n", "i", "h", ".", "g", "o", "v", "/">> \o p
                       \o <<"/", ")", " ", "-", " ", "L", "o", "o", "k", " ", "f", "o", "r", " ", "f", "r", "e", "e", " ", "f", "u", "l", "l", " ", "t", "e", "x", "t">>)>>)
        \o <<Str(<<"<bullet>", " ", "[", "<chart>", " ", "*", "*", "C", "i", "t", "a", "t", "i", "o", "n", " ", "A", "n", "a", "l", "y", "s", "i", "s", "*", "*", "]", "(", "h", "t", "t", "p", "s", ":", "/", "/", "s", "c", "h", "o", "l", "a", "r", ".", "g", "o", "o", "g", "l", "e", ".", "c", "o", "m", "/", "s", "c", "h", "o", "l", "a", "r", "?", "q", "=">> \o p
                 \o <<")", " ", "-", " ", "G", "o", "o", "g", "l", "e", " ", "S", "c", "h", "o", "l", "a", "r", " ", "c", "i", "t", "a", "t", "i", "o", "n", "s">>),
             Str(<<"<bullet>", " ", "[", "<link>", " ", "*", "*", "F", "i", "n", "d", " ", "S", "i", "m", "i", "l", "a", "r", "*", "*", "]", "(", "h", "t", "t", "p", "s", ":", "/", "/", "p", "u", "b", "m", "e", "d", ".", "n", "c", "b", "i", ".", "n", "l", "m", ".", "n", "i", "h", ".", "g", "o", "v", "/", "s", "i", "t", "e", "s", "/", "p", "u", "b", "m", "e", "d", "/", "?", "l", "i", "n", "k", "n", "a", "m", "e", "=", "p", "u", "b", "m", "e", "d", "_", "p", "u", "b", "m", "e", "d", "&", "f", "r", "o", "m", "_", "u", "i", "d", "=">>
                 \o p \o <<")", " ", "-", " ", "R", "e", "l", "a", "t", "e", "d", " ", "a", "r", "t", "i", "c", "l", "e", "s">>)>>

\* the optional line written also for an empty value
JoinedSectionAlways(title, items) ==
    LET joined == Join(<<",", " ">>, items.v)
    IN  IF IsRaise(joined) THEN <<Raise>> ELSE <<Str(title \o joined.v)>>

\* lines 769-779: one optional line, ', '.join(items) after its title
JoinedSection(title, items) ==
    IF ~Truthy(items) THEN <<>>
    ELSE LET joined == Join(<<",", " ">>, items.v)
         IN  IF IsRaise(joined) THEN <<Raise>> ELSE <<Str(title \o joined.v)>>

_format_article_details(article) ==
    LET details ==
            DetailHead(article) \o DetailLinks(article)
            \o JoinedSection(<<"\n", "*", "*", "P", "u", "b", "l", "i", "c", "a", "t", "i", "o", "n", " ", "T", "y", "p", "e", "s", ":", "*", "*", " ">>, article.v["publication_types"])
            \o (IF Truthy(article.v["abstract"])
                THEN <<Str(<<"\n", "#", "#", " ", "<clipboard>", " ", "A", "b", "s", "t", "r", "a", "c", "t", "\n", "\n">> \o PyStr(article.v["abstract"]))>>
                ELSE <<>>)
            \o JoinedSection(<<"\n", "*", "*", "<label>", " ", "K", "e", "y", "w", "o", "r", "d", "s", ":", "*", "*", " ">>, article.v["keywords"])
            \o JoinedSection(<<"\n", "*", "*", "<microscope>", " ", "M", "e", "S", "H", " ", "T", "e", "r", "m", "s", ":", "*", "*", " ">>, article.v["mesh_terms"])
    IN  Join(<<"\n">>, details)

(***************************************************************************)
(* Query augmentation, server.py _search_pubmed lines 195-213              *)
(***************************************************************************)
LAST_5_YEARS == <<"l", "a", "s", "t", "_", "5", "_", "y", "e", "a", "r", "s">>
LAST_YEAR == <<"l", "a", "s", "t", "_", "y", "e", "a", "r">>
AND == <<" ", "A", "N", "D", " ">>
PDAT == <<"[", "p", "d", "a", "t", "]">>

\* `":" in date_range`
HasColon(s) == \E i \in 1..Len(s) : s[i] = ":"

\* the mutated rule 4: any all-digit token, whatever its length
AugmentQueryAnyLength(q, t, year) ==
    IF t = <<>> THEN q
    ELSE IF t = LAST_5_YEARS
         THEN q \o AND \o ItoA(year - 5) \o <<":">> \o ItoA(year) \o PDAT
    ELSE IF t = LAST_YEAR
         THEN q \o AND \o ItoA(year - 1) \o <<":">> \o ItoA(year) \o PDAT
    ELSE IF HasColon(t) THEN q \o AND \o t \o PDAT
    ELSE IF IsDigit(t) THEN q \o AND \o t \o PDAT
    ELSE q

\* search_query after lines 201-213
AugmentQuery(q, t, year) ==
    IF t = <<>> THEN q
    ELSE IF t = LAST_5_YEARS
         THEN q \o AND \o ItoA(year - 5) \o <<":">> \o ItoA(year) \o PDAT
    ELSE IF t = LAST_YEAR
         THEN q \o AND \o ItoA(year - 1) \o <<":">> \o ItoA(year) \o PDAT
    ELSE IF HasColon(t) THEN q \o AND \o t \o PDAT
    ELSE IF IsDigit(t) /\ Len(t) = 4 THEN q \o AND \o t \o PDAT
    ELSE q

(***************************************************************************)
(* Link-result documents (spec.md section 6: one or more link-sets, each   *)
(* with one or more link-set-databases, each with link entries)            *)
(***************************************************************************)
MaxLinks == 3

SeqsUpTo(S, n) == UNION {[1..m -> S] : m \in 0..n}

PUBMED == <<"p", "u", "b", "m", "e", "d">>
PMC == <<"p", "m", "c">>

IdTexts == {<<"1">>, <<"2">>, <<"3">>}
Origins == {<<"1">>, <<"2">>}

LinkE(i) == D1("Id", Str(i))
\* link entries: with an identifier, or without one
LinkEntries == {LinkE(i) : i \in IdTexts} \cup {Dict(<<>>)}
LinkShapes == {List(l) : l \in SeqsUpTo(LinkEntries, MaxLinks)} \cup LinkEntries

DbOf(t, links) == D2("DbTo", Str(t), "Link", links)
DBs == {DbOf(t, l) : t \in {PUBMED, PMC}, l \in LinkShapes}
          \cup {D1("DbTo", Str(PUBMED))}
SmallDBs == {DbOf(t, LinkE(i)) : t \in {PUBMED, PMC}, i \in IdTexts}
LinkSetDbShapes ==
    DBs \cup {List(<<d>>) : d \in DBs}
        \cup {List(<<a, b>>) : a \in SmallDBs, b \in SmallDBs}
        \cup {List(<<>>)}

LinkSetOf(dbs) == D1("LinkSetDb", dbs)
LinkSets == {LinkSetOf(s) : s \in LinkSetDbShapes} \cup {Dict(<<>>)}
SmallLinkSets == {LinkSetOf(d) : d \in SmallDBs}
LinkSetShapes ==
    LinkSets \cup {List(<<x>>) : x \in LinkSets}
        \cup {List(<<a, b>>) : a \in SmallLinkSets, b \in SmallLinkSets}
        \cup {List(<<>>), None}

LinkResultOf(linksets) == D1("eLinkResult", D1("LinkSet", linksets))
LinkResults ==
    {LinkResultOf(s) : s \in LinkSetShapes}
        \cup {D1("eLinkResult", Dict(<<>>)), D1("eLinkResult", None), Dict(<<>>)}

(***************************************************************************)
(* SpecLinks: the two resolvers applied to a link-result document          *)
(***************************************************************************)
\* the variables of the operations a specification does not exercise
LinksIdle ==
    pmid = <<>> /\ link_result = None /\ similar_pmids = None /\ similar_ids = None
QueryIdle ==
    query = <<>> /\ date_range = <<>> /\ current_year = 0 /\ search_query = <<>>
ExtractIdle ==
    extractor = "" /\ argument = None /\ value = None
ParseIdle ==
    xml_data = None /\ articles = None /\ picked = 0 /\ rendered = None
NormIdle ==
    site = "" /\ parent = None /\ children = None /\ again = None
SoloIdle ==
    /\ tool = "" /\ arguments = None /\ max_results = 0 /\ sort_order = <<>>
    /\ requests = <<>> /\ pmids = <<>> /\ total_count = 0 /\ response = None
    /\ fault = None /\ search_result = None
ConcIdle ==
    config = None /\ invocations = <<>> /\ frames = <<>>
OpsIdle == SoloIdle /\ ConcIdle

InitLinks ==
    /\ pc = "start"
    /\ pmid \in Origins
    /\ link_result \in LinkResults
    /\ similar_pmids = None
    /\ similar_ids = None
    /\ QueryIdle /\ ExtractIdle /\ ParseIdle /\ NormIdle /\ OpsIdle

\* server.py lines 361-380
ServerResolve ==
    /\ pc = "start"
    /\ similar_pmids' = ServerSimilarPmids(link_result, pmid)
    /\ pc' = "server"
    /\ UNCHANGED <<pmid, link_result, similar_ids, queryVars, extractVars, parseVars, normVars, opsVars>>

\* app.py lines 289-308
AppResolve ==
    /\ pc = "start"
    /\ similar_ids' = AppSimilarIds(link_result, pmid)
    /\ pc' = "app"
    /\ UNCHANGED <<pmid, link_result, similar_pmids, queryVars, extractVars, parseVars, normVars, opsVars>>

NextLinks == ServerResolve \/ AppResolve

SpecLinks == InitLinks /\ [][NextLinks]_vars

(***************************************************************************)
(* SpecQuery: the date-range rule applied to a query and a token           *)
(***************************************************************************)
MaxTokenLen == 4

Queries == {<<>>, <<"c", "a", "n", "c", "e", "r">>}
Years == {2025, 2026}
DateTokens ==
    SeqsUpTo({"2", "0", "a", ":"}, MaxTokenLen)
        \cup {LAST_5_YEARS, LAST_YEAR,
              <<"l", "a", "s", "t", "_", "1", "0", "_", "y", "e", "a", "r", "s">>,
              <<"2", "0", "2", "0", ":", "2", "0", "2", "4">>,
              <<"b", "o", "g", "u", "s">>,
              <<"2", "0", "2", "3", "0">>}

InitQuery ==
    /\ pc = "start"
    /\ query \in Queries
    /\ date_range \in DateTokens
    /\ current_year \in Years
    /\ search_query = <<>>
    /\ LinksIdle /\ ExtractIdle /\ ParseIdle /\ NormIdle /\ OpsIdle

\* server.py lines 195-213
BuildQuery ==
    /\ pc = "start"
    /\ search_query' = AugmentQuery(query, date_range, current_year)
    /\ pc' = "query"
    /\ UNCHANGED <<query, date_range, current_year, linkVars, extractVars, parseVars, normVars, opsVars>>

NextQuery == BuildQuery

SpecQuery == InitQuery /\ [][NextQuery]_vars

(***************************************************************************)
(* SpecExtract: one field extractor applied to one argument node           *)
(***************************************************************************)
MaxAuthors == 16
MaxMesh == 11
MaxKeywords == 3
MaxEntries == 2

\* a mapping holding inline markup, the shape of a text with child elements
INLINE == D1("i", Str(<<"x">>))

OddNodes ==
    {None, EMPTY, Str(<<"x">>), List(<<>>), List(<<Str(<<"x">>)>>), List(<<None>>),
     Dict(<<>>), INLINE, D1("#text", INLINE), D1("#text", List(<<Str(<<"x">>)>>)),
     D1("#text", None), D1("#text", Str(<<"x">>))}

\* arguments of any shape around the child key of an extractor
OddArgs(key) ==
    OddNodes \cup {D1(key, o) : o \in OddNodes}
             \cup {D1(key, List(<<o, p>>)) : o \in OddNodes, p \in OddNodes}

\* the i-th author, by the fields it carries
AuthorKinds == {"full", "initials", "last", "collective", "scalar", "maplast", "mapfore",
                "both"}
AuthorOf(kind, i) ==
    CASE kind = "full" -> D2("LastName", Str(<<LOWER[i]>>), "ForeName", Str(<<UPPER[i]>>))
      [] kind = "initials" -> D2("LastName", Str(<<LOWER[i]>>), "Initials", Str(<<UPPER[i]>>))
      [] kind = "last" -> D1("LastName", Str(<<LOWER[i]>>))
      [] kind = "collective" -> D1("CollectiveName", Str(<<LOWER[i]>>))
      [] kind = "scalar" -> Str(<<LOWER[i]>>)
      [] kind = "maplast" -> D1("LastName", INLINE)
      [] kind = "mapfore" -> D2("LastName", Str(<<LOWER[i]>>), "ForeName", INLINE)
      [] kind = "both" -> Dict(("LastName" :> Str(<<LOWER[i]>>))
                               @@ ("ForeName" :> Str(<<UPPER[i]>>))
                               @@ ("Initials" :> Str(<<UPPER[i], ".">>)))

\* the kinds that differ in the name fields they carry
NameKinds == {"both", "initials", "last", "collective"}

\* n authors, all of kind `base` but the p-th, which is of kind `kind`
AuthorsWith(n, base, p, kind) ==
    [i \in 1..n |-> IF i = p THEN AuthorOf(kind, i) ELSE AuthorOf(base, i)]

AuthorLists ==
    {AuthorsWith(n, "full", p, kind) : n \in 0..MaxAuthors, p \in 0..MaxAuthors,
                                       kind \in AuthorKinds}
        \cup {AuthorsWith(n, "collective", p, "full") : n \in 0..MaxAuthors,
                                                        p \in 0..MaxAuthors}
        \cup {<<AuthorOf(k1, 1), AuthorOf(k2, 2), AuthorOf(k3, 3)>> :
                 k1 \in NameKinds, k2 \in NameKinds, k3 \in NameKinds}

AuthorArgs ==
    {D1("Author", List(l)) : l \in AuthorLists}
        \cup {D1("Author", AuthorOf(kind, 1)) : kind \in AuthorKinds}
        \cup OddArgs("Author")

DateValues == {EMPTY, Str(<<"1">>), INLINE}
DateFields == {"Year", "Month", "Day", "MedlineDate"}
\* the text of a date field, a different one for each field
DateText(field) ==
    CASE field = "Year" -> <<"2", "0", "2", "0">>
      [] field = "Month" -> <<"J", "a", "n">>
      [] field = "Day" -> <<"7">>
      [] field = "MedlineDate" -> <<"2", "0", "2", "0", " ", "J", "a", "n", "-", "F", "e", "b">>
PubDates ==
    {[k \in DOMAIN f |-> IF f[k] = Str(<<"1">>) THEN Str(DateText(k)) ELSE f[k]] :
        f \in UNION {[keys -> DateValues] : keys \in SUBSET DateFields}}
PubDateArgs ==
    {D1("PubDate", Dict(pd)) : pd \in PubDates} \cup OddArgs("PubDate")

AbstractParts ==
    {D2("@Label", Str(<<"L">>), "#text", Str(<<t>>)) : t \in {"t", "u"}}
        \cup {D1("#text", Str(<<t>>)) : t \in {"t", "u"}}
        \cup {D1("@Label", Str(<<"L">>)), Dict(<<>>), Str(<<"t">>), None,
              D2("@Label", Str(<<"L">>), "#text", INLINE), D1("#text", INLINE)}
AbstractArgs ==
    {D1("AbstractText", p) : p \in AbstractParts}
        \cup {D1("AbstractText", List(l)) : l \in SeqsUpTo(AbstractParts, MaxEntries)}
        \cup OddArgs("AbstractText")

ELocations ==
    {D2("@EIdType", Str(ty), "#text", Str(t)) :
        ty \in {<<"d", "o", "i">>, <<"D", "O", "I">>, <<"p", "i", "i">>}, t \in {<<>>, <<"d">>, <<"e">>}}
        \cup {D1("#text", Str(<<"d">>)), D1("@EIdType", Str(<<"d", "o", "i">>)),
              D2("@EIdType", INLINE, "#text", Str(<<"d">>)),
              D2("@EIdType", Str(<<"d", "o", "i">>), "#text", INLINE), Str(<<"d">>), Dict(<<>>)}
DoiArgs ==
    ELocations \cup {List(l) : l \in SeqsUpTo(ELocations, MaxEntries)} \cup OddNodes

KeywordTexts == {<<"A", "I">>, <<"a", "i">>, <<"M", "L">>}
Keywords ==
    {Str(t) : t \in KeywordTexts} \cup {D1("#text", Str(t)) : t \in KeywordTexts}
        \cup {D1("@MajorTopicYN", Str(<<"N">>))}
KeywordArgs ==
    {D1("Keyword", k) : k \in Keywords}
        \cup {D1("Keyword", List(l)) : l \in SeqsUpTo(Keywords, MaxKeywords)}
        \cup OddArgs("Keyword")

PubTypes ==
    {D1("#text", Str(<<t>>)) : t \in {"r", "s"}}
        \cup {D2("#text", Str(<<"r">>), "@UI", Str(<<"D">>)), Str(<<"r">>), Dict(<<>>),
              D1("@UI", Str(<<"D">>)), D1("#text", INLINE), None}
PubTypeArgs ==
    {D1("PublicationType", p) : p \in PubTypes}
        \cup {D1("PublicationType", List(l)) : l \in SeqsUpTo(PubTypes, MaxEntries)}
        \cup OddArgs("PublicationType")

\* the i-th MeSH heading, by the descriptor it carries
MeshKinds == {"term", "attrs", "qualifier", "scalar", "emptyterm", "mapterm"}
HeadingOf(kind, i) ==
    CASE kind = "term" -> D1("DescriptorName", D1("#text", Str(<<LOWER[i]>>)))
      [] kind = "attrs" -> D1("DescriptorName",
                              D2("#text", Str(<<LOWER[i]>>), "@UI", Str(<<"D">>)))
      [] kind = "qualifier" -> D1("QualifierName", D1("#text", Str(<<LOWER[i]>>)))
      [] kind = "scalar" -> D1("DescriptorName", Str(<<LOWER[i]>>))
      [] kind = "emptyterm" -> D1("DescriptorName", D1("@UI", Str(<<"D">>)))
      [] kind = "mapterm" -> D1("DescriptorName", D1("#text", INLINE))

HeadingsWith(n, p, kind) ==
    [i \in 1..n |-> IF i = p THEN HeadingOf(kind, i) ELSE HeadingOf("term", i)]

MeshLists ==
    {HeadingsWith(n, p, kind) : n \in 0..MaxMesh, p \in 0..MaxMesh, kind \in MeshKinds}
MeshArgs ==
    {D1("MeshHeading", List(l)) : l \in MeshLists}
        \cup {D1("MeshHeading", HeadingOf(kind, 1)) : kind \in MeshKinds}
        \cup OddArgs("MeshHeading")

ExtractorNames ==
    {"authors", "pub_date", "abstract", "doi", "keywords", "publication_types",
     "mesh_terms"}

ArgsOf(name) ==
    CASE name = "authors" -> AuthorArgs
      [] name = "pub_date" -> PubDateArgs
      [] name = "abstract" -> AbstractArgs
      [] name = "doi" -> DoiArgs
      [] name = "keywords" -> KeywordArgs
      [] name = "publication_types" -> PubTypeArgs
      [] name = "mesh_terms" -> MeshArgs

InitExtract ==
    /\ pc = "start"
    /\ extractor \in ExtractorNames
    /\ argument \in ArgsOf(extractor)
    /\ value = None
    /\ LinksIdle /\ QueryIdle /\ ParseIdle /\ NormIdle /\ OpsIdle

Extracted(v) ==
    /\ value' = v
    /\ pc' = "extracted"
    /\ UNCHANGED <<extractor, argument, linkVars, queryVars, parseVars, normVars, opsVars>>

ExtractAuthors ==
    pc = "start" /\ extractor = "authors" /\ Extracted(_extract_authors(argument))
ExtractPubDate ==
    pc = "start" /\ extractor = "pub_date" /\ Extracted(_extract_pub_date(argument))
ExtractAbstract ==
    pc = "start" /\ extractor = "abstract" /\ Extracted(_extract_abstract(argument))
ExtractDoi ==
    pc = "start" /\ extractor = "doi" /\ Extracted(_extract_doi(argument))
ExtractKeywords ==
    pc = "start" /\ extractor = "keywords" /\ Extracted(_extract_keywords(argument))
ExtractPublicationTypes ==
    pc = "start" /\ extractor = "publication_types"
        /\ Extracted(_extract_publication_types(argument))
ExtractMeshTerms ==
    pc = "start" /\ extractor = "mesh_terms" /\ Extracted(_extract_mesh_terms(argument))

NextExtract ==
    \/ ExtractAuthors
    \/ ExtractPubDate
    \/ ExtractAbstract
    \/ ExtractDoi
    \/ ExtractKeywords
    \/ ExtractPublicationTypes
    \/ ExtractMeshTerms

SpecExtract == InitExtract /\ [][NextExtract]_vars

(***************************************************************************)
(* SpecParse: a fetched document set is parsed into records, and a record  *)
(* is rendered as a summary or as a detail block                           *)
(***************************************************************************)
MaxDocs == 3

BaseJournal ==
    [Title |-> Str(<<"J">>), ISOAbbreviation |-> Str(<<"j">>),
     JournalIssue |-> D1("PubDate", D1("Year", Str(<<"1">>)))]
BaseArticle(p) ==
    [ArticleTitle |-> Str(<<"T", p>>),
     AuthorList |-> D1("Author", AuthorOf("full", 1)),
     Journal |-> Dict(BaseJournal),
     Abstract |-> D1("AbstractText", Str(<<"t">>)),
     ELocationID |-> D2("@EIdType", Str(<<"d", "o", "i">>), "#text", Str(<<"d">>)),
     PublicationTypeList |-> D1("PublicationType", D1("#text", Str(<<"r">>)))]
BaseCitation(p) ==
    [PMID |-> D2("#text", Str(<<p>>), "@Version", Str(<<"1">>)),
     Article |-> Dict(BaseArticle(p)),
     KeywordList |-> D1("Keyword", Str(<<"A", "I">>)),
     MeshHeadingList |-> D1("MeshHeading", HeadingOf("term", 1))]

DocOf(citation) == D1("MedlineCitation", Dict(citation))
GoodDoc(p) == DocOf(BaseCitation(p))
\* the good document with one field of its citation, article or journal replaced
CitationWith(key, n) == DocOf([BaseCitation("7") EXCEPT ![key] = n])
ArticleWith(key, n) ==
    CitationWith("Article", Dict([BaseArticle("7") EXCEPT ![key] = n]))
JournalWith(key, n) ==
    ArticleWith("Journal", Dict([BaseJournal EXCEPT ![key] = n]))

FieldDocs ==
    {CitationWith("PMID", n) : n \in OddNodes}
        \cup {ArticleWith("ArticleTitle", n) : n \in OddNodes}
        \cup {ArticleWith("AuthorList", n) : n \in OddArgs("Author")}
        \cup {ArticleWith("Journal", n) : n \in OddNodes}
        \cup {JournalWith("Title", n) : n \in OddNodes}
        \cup {JournalWith("ISOAbbreviation", n) : n \in OddNodes}
        \cup {JournalWith("JournalIssue", n) : n \in PubDateArgs}
        \cup {ArticleWith("Abstract", n) : n \in AbstractArgs}
        \cup {ArticleWith("ELocationID", n) : n \in DoiArgs}
        \cup {CitationWith("KeywordList", n) : n \in OddArgs("Keyword")}
        \cup {ArticleWith("PublicationTypeList", n) : n \in PubTypeArgs}
        \cup {CitationWith("MeshHeadingList", n) : n \in OddArgs("MeshHeading")}
        \cup {CitationWith("MeshHeadingList", D1("MeshHeading", HeadingOf(kind, 1))) :
                 kind \in MeshKinds}
        \cup {CitationWith("Article", n) : n \in OddNodes}
        \cup {D1("MedlineCitation", n) : n \in OddNodes}
        \cup OddNodes

\* the documents of the batches: two good ones and four that fail to build
BatchDocs ==
    {GoodDoc("1"), GoodDoc("2"), Str(<<"x">>), None,
     D1("MedlineCitation", Str(<<"x">>)), CitationWith("Article", List(<<>>))}

SetOf(documents) == D1("PubmedArticleSet", D1("PubmedArticle", documents))
XmlData ==
    {SetOf(d) : d \in FieldDocs}
        \cup {SetOf(List(l)) : l \in SeqsUpTo(BatchDocs, MaxDocs)}
        \cup {Dict(<<>>), D1("PubmedArticleSet", None), D1("PubmedArticleSet", Dict(<<>>)),
              D1("PubmedArticleSet", Str(<<"x">>)),
              D1("PubmedArticleSet", List(<<GoodDoc("1")>>))}

InitParse ==
    /\ pc = "start"
    /\ xml_data \in XmlData
    /\ articles = None
    /\ picked = 0
    /\ rendered = None
    /\ LinksIdle /\ QueryIdle /\ ExtractIdle /\ NormIdle /\ OpsIdle

\* server.py line 260 (also 317 and 400)
ParseArticles ==
    /\ pc = "start"
    /\ articles' = _parse_articles(xml_data)
    /\ pc' = "parsed"
    /\ UNCHANGED <<xml_data, picked, rendered, linkVars, queryVars, extractVars, normVars, opsVars>>

\* server.py lines 283-284 (also 415-416)
FormatSummary ==
    /\ pc = "parsed"
    /\ \E i \in 1..Len(articles.v) :
           /\ picked' = i
           /\ rendered' = _format_article_summary(articles.v[i], i)
    /\ pc' = "summary"
    /\ UNCHANGED <<xml_data, articles, linkVars, queryVars, extractVars, normVars, opsVars>>

\* server.py lines 325-326, which render articles[0]; the formatter is applied
\* here to any record of the parsed batch
FormatDetails ==
    /\ pc = "parsed"
    /\ \E i \in 1..Len(articles.v) :
           /\ picked' = i
           /\ rendered' = _format_article_details(articles.v[i])
    /\ pc' = "details"
    /\ UNCHANGED <<xml_data, articles, linkVars, queryVars, extractVars, normVars, opsVars>>

NextParse == ParseArticles \/ FormatSummary \/ FormatDetails

SpecParse == InitParse /\ [][NextParse]_vars

(***************************************************************************)
(* SpecNormalize: the canonicalization of a child node to a sequence, at   *)
(* each place of the code that does it, applied once and then to its own   *)
(* output                                                                  *)
(***************************************************************************)
MaxItems == 2

\* the child keys canonicalized: server.py lines 439-441, 521-523, 606-607,
\* 625-627, 650-652, 671-673, and the link containers of app.py 289-303
Sites == {"PubmedArticle", "Author", "ELocationID", "Keyword", "PublicationType",
          "MeshHeading", "Link"}

\* the canonicalization a site applies to the value of its child
NormalizeValue(name, x) ==
    CASE name \in {"PubmedArticle", "Author"} -> List(ListOrWrap(x))
      [] name = "Link" -> Iter(WrapDict(x))
      [] OTHER -> List(ListOrWrapTruthy(x))

\* parent.get(key, []) followed by the canonicalization
NormalizeChild(name, node) == NormalizeValue(name, Get(node, name, List(<<>>)))

ChildElements == {Str(<<"a", "b">>), D1("#text", Str(<<"x">>)), EMPTY}
ChildValues ==
    {None, EMPTY, Dict(<<>>), Str(<<"a", "b">>), D1("#text", Str(<<"x">>))}
        \cup {List(l) : l \in SeqsUpTo(ChildElements, MaxItems)}
ParentsOf(name) == {Dict(<<>>)} \cup {D1(name, v) : v \in ChildValues}

InitNormalize ==
    /\ pc = "start"
    /\ site \in Sites
    /\ parent \in ParentsOf(site)
    /\ children = None
    /\ again = None
    /\ LinksIdle /\ QueryIdle /\ ExtractIdle /\ ParseIdle /\ OpsIdle

Normalize ==
    /\ pc = "start"
    /\ children' = NormalizeChild(site, parent)
    /\ pc' = "normalized"
    /\ UNCHANGED <<site, parent, again, linkVars, queryVars, extractVars, parseVars, opsVars>>

\* the same canonicalization applied to the sequence it produced
Renormalize ==
    /\ pc = "normalized"
    /\ ~IsRaise(children)
    /\ again' = NormalizeValue(site, children)
    /\ pc' = "renormalized"
    /\ UNCHANGED <<site, parent, children, linkVars, queryVars, extractVars, parseVars, opsVars>>

NextNormalize == Normalize \/ Renormalize

SpecNormalize == InitNormalize /\ [][NextNormalize]_vars

(***************************************************************************)
(* The tool operations, server.py lines 128-427: dispatch, the requests    *)
(* to the remote endpoints and the text returned to the caller             *)
(***************************************************************************)
\* str(e): the text of an exception; one the model does not spell stands as
\* the single item "<error>"
ErrorText(e) == IF e.v = <<>> THEN <<"<error>">> ELSE e.v

\* s.strip()
Whitespace == {" ", "\n", "\t"}
RECURSIVE StripLeft(_)
StripLeft(s) == IF s # <<>> /\ Head(s) \in Whitespace THEN StripLeft(Tail(s)) ELSE s
RECURSIVE StripRight(_)
StripRight(s) ==
    IF s # <<>> /\ s[Len(s)] \in Whitespace THEN StripRight(SubSeq(s, 1, Len(s) - 1)) ELSE s
Strip(s) == StripRight(StripLeft(s))

RECURSIVE DigitsValue(_)
\* the number a text of decimal digits spells
DigitsValue(s) ==
    IF s = <<>> THEN 0
    ELSE 10 * DigitsValue(SubSeq(s, 1, Len(s) - 1))
         + ((CHOOSE d \in 1..10 : DigitChars[d] = s[Len(s)]) - 1)

\* int(x) for an int or a text of decimal digits; ValueError or TypeError
\* otherwise
ToInt(x) ==
    CASE x.k = "int" -> x
      [] x.k = "str" /\ IsDigit(x.v) -> PyInt(DigitsValue(x.v))
      [] OTHER -> Raise

RECURSIVE Thousands(_)
\* f"{n:,}" for a non-negative int n
Thousands(n) ==
    IF n < 1000 THEN ItoA(n)
    ELSE Thousands(n \div 1000)
         \o <<",", DigitChars[((n % 1000) \div 100) + 1], DigitChars[((n % 100) \div 10) + 1],
              DigitChars[(n % 10) + 1]>>

\* lines 147-191: what _make_api_request gives for the outcome of the HTTP
\* exchange: the parsed document, or an exception
_make_api_request(outcome) ==
    CASE outcome.kind = "status" ->
            Fault(<<"H", "T", "T", "P", " ", "e", "r", "r", "o", "r", " ", "5", "0", "0", ":", " ">> \o <<"<body>">>)
      [] outcome.kind = "timeout" ->
            Fault(<<"R", "e", "q", "u", "e", "s", "t", " ", "t", "i", "m", "e", "d", " ", "o", "u", "t", " ", "-", " ", "P", "u", "b", "M", "e", "d", " ", "A", "P", "I", " ", "m", "a", "y", " ", "b", "e", " ", "s", "l", "o", "w">>)
      [] outcome.kind = "unparsable" ->
            Fault(<<"A", "P", "I", " ", "r", "e", "q", "u", "e", "s", "t", " ", "f", "a", "i", "l", "e", "d", ":", " ">> \o <<"<error>">>)
      [] OTHER ->
            LET parsed_data == outcome.document
                error_list == IF Contains("eSearchResult", parsed_data)
                              THEN Get(parsed_data.v["eSearchResult"], "ErrorList", None)
                              ELSE None
            IN  IF IsRaise(error_list)
                THEN Fault(<<"A", "P", "I", " ", "r", "e", "q", "u", "e", "s", "t", " ", "f", "a", "i", "l", "e", "d", ":", " ">> \o <<"<error>">>)
                ELSE IF Truthy(error_list)
                     THEN Fault(<<"A", "P", "I", " ", "r", "e", "q", "u", "e", "s", "t", " ", "f", "a", "i", "l", "e", "d", ":", " ", "P", "u", "b", "M", "e", "d", " ", "A", "P", "I", " ", "e", "r", "r", "o", "r", ":", " ">> \o PyStr(error_list))
                ELSE parsed_data

\* lines 228-241: the identifiers and the total count of a search result
SearchResultIds(esearch_result) ==
    IF ~Contains("eSearchResult", esearch_result)
    THEN [pmids |-> List(<<>>), total_count |-> PyInt(0)]
    ELSE LET search_data == esearch_result.v["eSearchResult"]
             count == Get(search_data, "Count", PyInt(0))
             id_list == Get(search_data, "IdList", Dict(<<>>))
         IN  IF IsRaise(count) \/ IsRaise(ToInt(count))
             THEN [pmids |-> Raise, total_count |-> PyInt(0)]
             ELSE [pmids |-> IF Truthy(id_list) /\ Contains("Id", id_list)
                             THEN List(ListOrWrapTruthy(id_list.v["Id"]))
                             ELSE List(<<>>),
                   total_count |-> ToInt(count)]

\* s without the cut
SliceToWhole(s, n) == s

\* s[:n]
SliceTo(s, n) ==
    IF n >= 0 THEN SubSeq(s, 1, IF n < Len(s) THEN n ELSE Len(s))
    ELSE SubSeq(s, 1, IF Len(s) + n > 0 THEN Len(s) + n ELSE 0)

\* the characters of a tool name
NameText(name) ==
    CASE name = "search_pubmed" -> <<"s", "e", "a", "r", "c", "h", "_", "p", "u", "b", "m", "e", "d">>
      [] name = "get_publication_details" -> <<"g", "e", "t", "_", "p", "u", "b", "l", "i", "c", "a", "t", "i", "o", "n", "_", "d", "e", "t", "a", "i", "l", "s">>
      [] name = "get_similar_articles" -> <<"g", "e", "t", "_", "s", "i", "m", "i", "l", "a", "r", "_", "a", "r", "t", "i", "c", "l", "e", "s">>
      [] OTHER -> <<name>>

\* lines 140-145: the text for an exception that left a tool handler
ErrorExecuting(name, e) == Str(<<"E", "r", "r", "o", "r", " ", "e", "x", "e", "c", "u", "t", "i", "n", "g", " ">> \o NameText(name) \o <<":", " ">> \o ErrorText(e))

\* lines 244-247
NoPublicationsFound(q) ==
    Str(<<"N", "o", " ", "p", "u", "b", "l", "i", "c", "a", "t", "i", "o", "n", "s", " ", "f", "o", "u", "n", "d", " ", "f", "o", "r", " ", "q", "u", "e", "r", "y", ":", " ", "'">> \o q
        \o <<"'", "\n", "\n", "T", "r", "y", ":", "\n", "-", " ", "D", "i", "f", "f", "e", "r", "e", "n", "t", " ", "k", "e", "y", "w", "o", "r", "d", "s", "\n", "-", " ", "B", "r", "o", "a", "d", "e", "r", " ", "s", "e", "a", "r", "c", "h", " ", "t", "e", "r", "m", "s", "\n", "-", " ", "R", "e", "m", "o", "v", "i", "n", "g", " ", "d", "a", "t", "e", " ", "f", "i", "l", "t", "e", "r", "s">>)
\* lines 263-266
SearchNoDetails ==
    Str(<<"F", "o", "u", "n", "d", " ", "P", "M", "I", "D", "s", " ", "b", "u", "t", " ", "c", "o", "u", "l", "d", "n", "'", "t", " ", "r", "e", "t", "r", "i", "e", "v", "e", " ", "a", "r", "t", "i", "c", "l", "e", " ", "d", "e", "t", "a", "i", "l", "s", ".", " ", "T", "h", "e", " ", "a", "r", "t", "i", "c", "l", "e", "s", " ", "m", "a", "y", " ", "b", "e", " ", "r", "e", "s", "t", "r", "i", "c", "t", "e", "d", " ", "o", "r", " ", "u", "n", "a", "v", "a", "i", "l", "a", "b", "l", "e", ".">>)
\* lines 292-295
SearchFailed(e) ==
    Str(<<"S", "e", "a", "r", "c", "h", " ", "f", "a", "i", "l", "e", "d", ":", " ">> \o ErrorText(e)
        \o <<"\n", "\n", "P", "l", "e", "a", "s", "e", " ", "c", "h", "e", "c", "k", ":", "\n", "-", " ", "Y", "o", "u", "r", " ", "i", "n", "t", "e", "r", "n", "e", "t", " ", "c", "o", "n", "n", "e", "c", "t", "i", "o", "n", "\n", "-", " ", "Q", "u", "e", "r", "y", " ", "s", "y", "n", "t", "a", "x", "\n", "-", " ", "T", "r", "y", " ", "a", " ", "s", "i", "m", "p", "l", "e", "r", " ", "s", "e", "a", "r", "c", "h", " ", "t", "e", "r", "m">>)
\* lines 303-306
InvalidPmidForDetails(p) ==
    Str(<<"I", "n", "v", "a", "l", "i", "d", " ", "P", "M", "I", "D", " ", "f", "o", "r", "m", "a", "t", ":", " ", "'">> \o p \o <<"'", ".", " ", "P", "M", "I", "D", " ", "s", "h", "o", "u", "l", "d", " ", "b", "e", " ", "a", " ", "n", "u", "m", "b", "e", "r", " ", "(", "e", ".", "g", ".", ",", " ", "'", "1", "2", "3", "4", "5", "6", "7", "8", "'", ")">>)
\* lines 320-323
NoPublicationFound(p) ==
    Str(<<"N", "o", " ", "p", "u", "b", "l", "i", "c", "a", "t", "i", "o", "n", " ", "f", "o", "u", "n", "d", " ", "w", "i", "t", "h", " ", "P", "M", "I", "D", ":", " ">> \o p
        \o <<"\n", "\n", "T", "h", "i", "s", " ", "c", "o", "u", "l", "d", " ", "m", "e", "a", "n", ":", "\n", "-", " ", "T", "h", "e", " ", "P", "M", "I", "D", " ", "d", "o", "e", "s", "n", "'", "t", " ", "e", "x", "i", "s", "t", "\n", "-", " ", "T", "h", "e", " ", "a", "r", "t", "i", "c", "l", "e", " ", "i", "s", " ", "n", "o", "t", " ", "i", "n", " ", "P", "u", "b", "M", "e", "d", "\n", "-", " ", "T", "h", "e", "r", "e", "'", "s", " ", "a", " ", "t", "e", "m", "p", "o", "r", "a", "r", "y", " ", "a", "c", "c", "e", "s", "s", " ", "i", "s", "s", "u", "e">>)
\* lines 332-335
DetailsFailed(p, e) ==
    Str(<<"F", "a", "i", "l", "e", "d", " ", "t", "o", " ", "r", "e", "t", "r", "i", "e", "v", "e", " ", "d", "e", "t", "a", "i", "l", "s", " ", "f", "o", "r", " ", "P", "M", "I", "D", " ">> \o p \o <<":", " ">> \o ErrorText(e))
\* lines 344-347
InvalidPmidForSimilar(p) ==
    Str(<<"I", "n", "v", "a", "l", "i", "d", " ", "P", "M", "I", "D", " ", "f", "o", "r", "m", "a", "t", ":", " ", "'">> \o p \o <<"'", ".", " ", "P", "M", "I", "D", " ", "s", "h", "o", "u", "l", "d", " ", "b", "e", " ", "a", " ", "n", "u", "m", "b", "e", "r", ".">>)
\* lines 383-386
NoSimilarFound(p) ==
    Str(<<"N", "o", " ", "s", "i", "m", "i", "l", "a", "r", " ", "a", "r", "t", "i", "c", "l", "e", "s", " ", "f", "o", "u", "n", "d", " ", "f", "o", "r", " ", "P", "M", "I", "D", " ">> \o p
        \o <<".", "\n", "\n", "T", "h", "i", "s", " ", "c", "o", "u", "l", "d", " ", "m", "e", "a", "n", ":", "\n", "-", " ", "T", "h", "e", " ", "a", "r", "t", "i", "c", "l", "e", " ", "i", "s", " ", "v", "e", "r", "y", " ", "s", "p", "e", "c", "i", "a", "l", "i", "z", "e", "d", "\n", "-", " ", "I", "t", "'", "s", " ", "a", " ", "v", "e", "r", "y", " ", "n", "e", "w", " ", "p", "u", "b", "l", "i", "c", "a", "t", "i", "o", "n", "\n", "-", " ", "T", "h", "e", " ", "a", "r", "t", "i", "c", "l", "e", " ", "i", "s", " ", "n", "o", "t", " ", "w", "e", "l", "l", "-", "c", "o", "n", "n", "e", "c", "t", "e", "d", " ", "i", "n", " ", "t", "h", "e", " ", "l", "i", "t", "e", "r", "a", "t", "u", "r", "e">>)
\* lines 403-406
SimilarNoDetails(p) ==
    Str(<<"F", "o", "u", "n", "d", " ", "s", "i", "m", "i", "l", "a", "r", " ", "a", "r", "t", "i", "c", "l", "e", " ", "I", "D", "s", " ", "b", "u", "t", " ", "c", "o", "u", "l", "d", "n", "'", "t", " ", "r", "e", "t", "r", "i", "e", "v", "e", " ", "d", "e", "t", "a", "i", "l", "s", " ", "f", "o", "r", " ", "P", "M", "I", "D", " ">> \o p)
\* lines 424-427
SimilarFailed(p, e) ==
    Str(<<"F", "a", "i", "l", "e", "d", " ", "t", "o", " ", "f", "i", "n", "d", " ", "s", "i", "m", "i", "l", "a", "r", " ", "a", "r", "t", "i", "c", "l", "e", "s", " ", "f", "o", "r", " ", "P", "M", "I", "D", " ">> \o p \o <<":", " ">> \o ErrorText(e))

\* lines 283-286 and 415-418: each record's summary, then a rule
SummaryParts(records) ==
    Flatten([i \in 1..Len(records) |->
                <<_format_article_summary(records[i], i), Str(<<"-", "-", "-", "\n">>)>>])

\* the search report with the date-filter line only for a token that
\* added a clause to the term
SearchReportFilterWhenApplied(q, total, records, sort, token) ==
    Join(<<"\n">>,
         <<Str(<<"#", " ", "P", "u", "b", "M", "e", "d", " ", "S", "e", "a", "r", "c", "h", " ", "R", "e", "s", "u", "l", "t", "s", "\n">>),
           Str(<<"*", "*", "Q", "u", "e", "r", "y", ":", "*", "*", " ">> \o q),
           Str(<<"*", "*", "T", "o", "t", "a", "l", " ", "m", "a", "t", "c", "h", "e", "s", ":", "*", "*", " ">> \o Thousands(total)),
           Str(<<"*", "*", "S", "h", "o", "w", "i", "n", "g", ":", "*", "*", " ">> \o ItoA(Len(records)) \o <<" ", "r", "e", "s", "u", "l", "t", "s">>),
           Str(<<"*", "*", "S", "o", "r", "t", " ", "o", "r", "d", "e", "r", ":", "*", "*", " ">> \o sort)>>
         \o (IF AugmentQuery(q, token, 2000) # q THEN <<Str(<<"*", "*", "D", "a", "t", "e", " ", "f", "i", "l", "t", "e", "r", ":", "*", "*", " ">> \o token)>> ELSE <<>>)
         \o <<Str(<<"\n", "-", "-", "-", "\n">>)>>
         \o SummaryParts(records))

\* lines 269-288: the search report, or the exception of a summary
SearchReport(q, total, records, sort, token) ==
    Join(<<"\n">>,
         <<Str(<<"#", " ", "P", "u", "b", "M", "e", "d", " ", "S", "e", "a", "r", "c", "h", " ", "R", "e", "s", "u", "l", "t", "s", "\n">>),
           Str(<<"*", "*", "Q", "u", "e", "r", "y", ":", "*", "*", " ">> \o q),
           Str(<<"*", "*", "T", "o", "t", "a", "l", " ", "m", "a", "t", "c", "h", "e", "s", ":", "*", "*", " ">> \o Thousands(total)),
           Str(<<"*", "*", "S", "h", "o", "w", "i", "n", "g", ":", "*", "*", " ">> \o ItoA(Len(records)) \o <<" ", "r", "e", "s", "u", "l", "t", "s">>),
           Str(<<"*", "*", "S", "o", "r", "t", " ", "o", "r", "d", "e", "r", ":", "*", "*", " ">> \o sort)>>
         \o (IF token # <<>> THEN <<Str(<<"*", "*", "D", "a", "t", "e", " ", "f", "i", "l", "t", "e", "r", ":", "*", "*", " ">> \o token)>> ELSE <<>>)
         \o <<Str(<<"\n", "-", "-", "-", "\n">>)>>
         \o SummaryParts(records))

\* lines 409-420: the similar-articles report, or the exception of a summary
SimilarReport(p, records) ==
    Join(<<"\n">>,
         <<Str(<<"#", " ", "S", "i", "m", "i", "l", "a", "r", " ", "A", "r", "t", "i", "c", "l", "e", "s", " ", "t", "o", " ", "P", "M", "I", "D", " ">> \o p \o <<"\n">>),
           Str(<<"*", "*", "F", "o", "u", "n", "d", ":", "*", "*", " ">> \o ItoA(Len(records)) \o <<" ", "s", "i", "m", "i", "l", "a", "r", " ", "a", "r", "t", "i", "c", "l", "e", "s", "\n">>),
           Str(<<"-", "-", "-", "\n">>)>>
         \o SummaryParts(records))

\* a text, or the text of the except clause when building it raised
TextOr(built, failure) == IF IsRaise(built) THEN failure ELSE built

\* the search operation without the branch of lines 262-266
SearchAnswerWithoutEmptyBranch(records, q, total, sort, token) ==
    TextOr(SearchReport(q, total, records.v, sort, token), SearchFailed(Raise))

\* lines 262-295: the text of the search operation for the parsed records
SearchAnswer(records, q, total, sort, token) ==
    IF ~Truthy(records) THEN SearchNoDetails
    ELSE TextOr(SearchReport(q, total, records.v, sort, token), SearchFailed(Raise))

\* lines 319-335: the text of the details operation for the parsed records
DetailsAnswer(records, p) ==
    IF ~Truthy(records) THEN NoPublicationFound(p)
    ELSE TextOr(_format_article_details(records.v[1]), DetailsFailed(p, Raise))

\* lines 402-427: the text of the similar operation for the parsed records
SimilarAnswer(records, p) ==
    IF ~Truthy(records) THEN SimilarNoDetails(p)
    ELSE TextOr(SimilarReport(p, records.v), SimilarFailed(p, Raise))

\* lines 290-295, 330-335 and 422-427: the text of an operation whose
\* request raised e
RequestFailed(name, p, e) ==
    CASE name = "search_pubmed" -> SearchFailed(e)
      [] name = "get_publication_details" -> DetailsFailed(p, e)
      [] OTHER -> SimilarFailed(p, e)

(***************************************************************************)
(* SpecOps: one tool invocation, from handle_call_tool to the text it      *)
(* returns.  Each remote request is a step of its own: the request is      *)
(* recorded when it is sent, and the exchange ends with a document or one  *)
(* of the faults of _make_api_request.                                     *)
(***************************************************************************)
Tools == {"search_pubmed", "get_publication_details", "get_similar_articles", "other"}

\* the optional arguments: absent, or one of the given values
Optional(key, values) == {<<>>} \cup {key :> x : x \in values}

SearchArguments ==
    {Dict(a @@ b @@ c @@ d) :
        a \in Optional("query", {Str(<<"c", "a", "n", "c", "e", "r">>)}),
        b \in Optional("date_range", {Str(<<>>), Str(<<"2", "0", "2", "0">>), Str(<<"l", "a", "s", "t", "_", "y", "e", "a", "r">>), Str(<<"s", "o", "o", "n">>)}),
        c \in Optional("sort", {Str(<<"p", "u", "b", "_", "d", "a", "t", "e">>)}),
        d \in Optional("max_results", {PyInt(2)})}

PmidArguments ==
    Optional("pmid", {Str(<<"1">>), Str(<<" ", "2", " ">>), Str(<<"x">>), Str(<<"1", "a">>), Str(<<>>), Str(<<" ">>), PyInt(1)})

DetailsArguments == {Dict(a) : a \in PmidArguments}

SimilarArguments ==
    {Dict(a @@ b) : a \in PmidArguments, b \in Optional("max_results", {PyInt(1), PyInt(2)})}

\* a tool name with an argument mapping
Calls ==
    {<<"search_pubmed", a>> : a \in SearchArguments}
        \cup {<<"get_publication_details", a>> : a \in DetailsArguments}
        \cup {<<"get_similar_articles", a>> : a \in SimilarArguments}
        \cup {<<"other", Dict(<<>>)>>}

\* the exchanges that end without a document: an error status, a timeout,
\* a body that is not XML
Faults == {[kind |-> "status"], [kind |-> "timeout"], [kind |-> "unparsable"]}
Documents(S) == {[kind |-> "document", document |-> d] : d \in S}

\* esearch documents: the count and the identifier list, each absent or in
\* one of its shapes, and a document with an error list
SearchResultOf(fields) == D1("eSearchResult", Dict(fields))
SearchResults ==
    {SearchResultOf(a @@ b) :
        a \in Optional("Count", {Str(<<"0">>), Str(<<"2">>), Str(<<"1", "2", "3", "4">>), Str(<<"m", "a", "n", "y">>)}),
        b \in Optional("IdList", {None, D1("Id", Str(<<"1">>)),
                                  D1("Id", List(<<Str(<<"1">>), Str(<<"2">>)>>)),
                                  D1("Id", List(<<>>))})}
        \cup {SearchResultOf("ErrorList" :> D1("PhraseNotFound", Str(<<"x">>))),
              D1("eSearchResult", None), Dict(<<>>)}

\* elink documents: one link-set with one pubmed link-set-database
OpsLinkResults ==
    {LinkResultOf(LinkSetOf(DbOf(PUBMED, l))) : l \in LinkShapes}
        \cup {LinkResultOf(Dict(<<>>)), LinkResultOf(None), Dict(<<>>)}

\* a document whose abstract text is not a string
OddAbstractDoc == ArticleWith("Abstract", D1("AbstractText", D1("#text", D1("i", Str(<<"x">>)))))

\* efetch documents: sets with one, two or no surviving documents
FetchedSets ==
    {SetOf(GoodDoc("1")),
     SetOf(List(<<GoodDoc("1"), GoodDoc("2")>>)),
     SetOf(List(<<GoodDoc("1"), Str(<<"x">>), GoodDoc("2")>>)),
     SetOf(OddAbstractDoc),
     SetOf(Str(<<"x">>)),
     SetOf(List(<<>>)),
     SetOf(List(<<None, GoodDoc("1")>>)),
     D1("PubmedArticleSet", None),
     Dict(<<>>)}

InitOps ==
    /\ pc = "start"
    /\ \E call \in Calls : tool = call[1] /\ arguments = call[2]
    /\ max_results = 0 /\ sort_order = <<>>
    /\ requests = <<>> /\ pmids = <<>> /\ total_count = 0 /\ response = None
    /\ fault = None /\ search_result = None
    /\ ConcIdle
    /\ xml_data = None /\ articles = None /\ picked = 0 /\ rendered = None
    /\ LinksIdle /\ QueryIdle /\ ExtractIdle /\ NormIdle

\* a request: the endpoint and the parameters of the operation
Request(endpoint, params) == [endpoint |-> endpoint, params |-> params]

\* lines 251-256, 309-314 and 392-397
FetchRequest(ids) ==
    Request("efetch.fcgi",
            ("db" :> PUBMED) @@ ("id" :> ids) @@ ("rettype" :> <<"a", "b", "s", "t", "r", "a", "c", "t">>)
                @@ ("retmode" :> <<"x", "m", "l">>))

\* lines 130-131 and 193-225: search_pubmed up to the esearch request
CallSearch ==
    /\ pc = "start"
    /\ tool = "search_pubmed"
    /\ IF ~Contains("query", arguments)
       THEN /\ response' = ErrorExecuting(tool, Fault(<<"'", "q", "u", "e", "r", "y", "'">>))
            /\ pc' = "done"
            /\ UNCHANGED <<queryVars, max_results, sort_order, requests>>
       ELSE /\ query' = arguments.v["query"].v
            /\ max_results' = Get(arguments, "max_results", PyInt(10)).v
            /\ sort_order' = Get(arguments, "sort", Str(<<"r", "e", "l", "e", "v", "a", "n", "c", "e">>)).v
            /\ date_range' = Get(arguments, "date_range", Str(<<>>)).v
            /\ \E year \in Years :
                   /\ current_year' = IF date_range' # <<>> THEN year ELSE current_year
                   /\ search_query' = AugmentQuery(query', date_range', year)
            /\ requests' = Append(requests,
                   Request("esearch.fcgi",
                           ("db" :> PUBMED) @@ ("term" :> search_query')
                               @@ ("retmax" :> ItoA(max_results'))
                               @@ ("sort" :> sort_order') @@ ("usehistory" :> <<"y">>)))
            /\ response' = response
            /\ pc' = "esearch"
    /\ UNCHANGED <<concVars, tool, arguments, search_result, fault, pmids, total_count, linkVars, extractVars, parseVars, normVars>>

\* lines 225-257: the esearch exchange ends (fault holds the exception of
\* _make_api_request, if it raised); the identifiers are read and the efetch
\* request is sent
EsearchReturns ==
    /\ pc = "esearch"
    /\ \E outcome \in Faults \cup Documents(SearchResults) :
           LET returned == _make_api_request(outcome)
               found == SearchResultIds(returned)
               ids == IF IsRaise(found.pmids) THEN Raise
                      ELSE Join(<<",">>, found.pmids.v)
           IN  /\ fault' = IF IsRaise(returned) THEN returned ELSE fault
               /\ search_result' = IF IsRaise(returned) THEN search_result ELSE returned
               /\ IF IsRaise(returned)
                  THEN /\ response' = SearchFailed(returned)
                       /\ pc' = "done"
                       /\ UNCHANGED <<pmids, total_count, requests>>
                  ELSE IF IsRaise(found.pmids)
                  THEN /\ response' = SearchFailed(Raise)
                       /\ pc' = "done"
                       /\ UNCHANGED <<pmids, total_count, requests>>
                  ELSE IF ~Truthy(found.pmids)
                  THEN /\ response' = NoPublicationsFound(query)
                       /\ total_count' = found.total_count.v
                       /\ pc' = "done"
                       /\ UNCHANGED <<pmids, requests>>
                  ELSE IF IsRaise(ids)
                  THEN /\ response' = SearchFailed(Raise)
                       /\ pmids' = found.pmids.v
                       /\ total_count' = found.total_count.v
                       /\ pc' = "done"
                       /\ UNCHANGED requests
                  ELSE /\ pmids' = found.pmids.v
                       /\ total_count' = found.total_count.v
                       /\ requests' = Append(requests, FetchRequest(ids.v))
                       /\ response' = response
                       /\ pc' = "efetch"
    /\ UNCHANGED <<concVars, tool, arguments, max_results, sort_order, queryVars, linkVars, extractVars,
                   parseVars, normVars>>

\* get_publication_details without the test of lines 302-306
CallDetailsWithoutValidation ==
    /\ pc = "start"
    /\ tool = "get_publication_details"
    /\ IF ~Contains("pmid", arguments)
       THEN /\ response' = ErrorExecuting(tool, Fault(<<"'", "p", "m", "i", "d", "'">>))
            /\ pc' = "done"
            /\ UNCHANGED <<pmid, requests>>
       ELSE IF ~IsStr(arguments.v["pmid"])
       THEN /\ response' = ErrorExecuting(tool, Raise)
            /\ pc' = "done"
            /\ UNCHANGED <<pmid, requests>>
       ELSE /\ pmid' = Strip(arguments.v["pmid"].v)
            /\ requests' = Append(requests, FetchRequest(pmid'))
            /\ response' = response
            /\ pc' = "efetch"
    /\ UNCHANGED <<concVars, tool, arguments, search_result, fault, max_results, sort_order, pmids, total_count,
                   link_result, similar_pmids, similar_ids, queryVars, extractVars, parseVars,
                   normVars>>

\* lines 132-133 and 297-316: get_publication_details up to the efetch
\* request
CallDetails ==
    /\ pc = "start"
    /\ tool = "get_publication_details"
    /\ IF ~Contains("pmid", arguments)
       THEN /\ response' = ErrorExecuting(tool, Fault(<<"'", "p", "m", "i", "d", "'">>))
            /\ pc' = "done"
            /\ UNCHANGED <<pmid, requests>>
       ELSE IF ~IsStr(arguments.v["pmid"])
       THEN /\ response' = ErrorExecuting(tool, Raise)
            /\ pc' = "done"
            /\ UNCHANGED <<pmid, requests>>
       ELSE /\ pmid' = Strip(arguments.v["pmid"].v)
            /\ IF ~IsDigit(pmid')
               THEN /\ response' = InvalidPmidForDetails(pmid')
                    /\ pc' = "done"
                    /\ UNCHANGED requests
               ELSE /\ requests' = Append(requests, FetchRequest(pmid'))
                    /\ response' = response
                    /\ pc' = "efetch"
    /\ UNCHANGED <<concVars, tool, arguments, search_result, fault, max_results, sort_order, pmids, total_count,
                   link_result, similar_pmids, similar_ids, queryVars, extractVars, parseVars,
                   normVars>>

\* lines 134-135 and 337-359: get_similar_articles up to the elink request
CallSimilar ==
    /\ pc = "start"
    /\ tool = "get_similar_articles"
    /\ IF ~Contains("pmid", arguments)
       THEN /\ response' = ErrorExecuting(tool, Fault(<<"'", "p", "m", "i", "d", "'">>))
            /\ pc' = "done"
            /\ UNCHANGED <<pmid, max_results, requests>>
       ELSE IF ~IsStr(arguments.v["pmid"])
       THEN /\ response' = ErrorExecuting(tool, Raise)
            /\ pc' = "done"
            /\ UNCHANGED <<pmid, max_results, requests>>
       ELSE /\ pmid' = Strip(arguments.v["pmid"].v)
            /\ max_results' = Get(arguments, "max_results", PyInt(10)).v
            /\ IF ~IsDigit(pmid')
               THEN /\ response' = InvalidPmidForSimilar(pmid')
                    /\ pc' = "done"
                    /\ UNCHANGED requests
               ELSE /\ requests' = Append(requests,
                           Request("elink.fcgi",
                                   ("dbfrom" :> PUBMED) @@ ("db" :> PUBMED) @@ ("id" :> pmid')
                                       @@ ("linkname" :> <<"p", "u", "b", "m", "e", "d", "_", "p", "u", "b", "m", "e", "d">>)
                                       @@ ("retmax" :> ItoA(max_results' + 1))))
                    /\ response' = response
                    /\ pc' = "elink"
    /\ UNCHANGED <<concVars, tool, arguments, search_result, fault, sort_order, pmids, total_count,
                   link_result, similar_pmids, similar_ids, queryVars, extractVars, parseVars,
                   normVars>>

\* the elink step without the test of lines 382-386
ElinkReturnsFetchAlways ==
    /\ pc = "elink"
    /\ \E outcome \in Faults \cup Documents(OpsLinkResults) :
           LET result == _make_api_request(outcome)
               related == IF IsRaise(result) THEN Raise ELSE ServerSimilarPmids(result, pmid)
               limited == IF IsRaise(related) THEN <<>>
                          ELSE SliceTo(related.v, max_results)
               ids == Join(<<",">>, limited)
           IN  /\ fault' = IF IsRaise(result) THEN result ELSE fault
               /\ IF IsRaise(result)
                  THEN /\ response' = SimilarFailed(pmid, result)
                       /\ pc' = "done"
                       /\ UNCHANGED <<link_result, similar_pmids, requests>>
                  ELSE /\ link_result' = result
                       /\ IF IsRaise(related)
                          THEN /\ response' = SimilarFailed(pmid, Raise)
                               /\ pc' = "done"
                               /\ UNCHANGED <<similar_pmids, requests>>
                          ELSE IF IsRaise(ids)
                          THEN /\ response' = SimilarFailed(pmid, Raise)
                               /\ similar_pmids' = List(limited)
                               /\ pc' = "done"
                               /\ UNCHANGED requests
                          ELSE /\ similar_pmids' = List(limited)
                               /\ requests' = Append(requests, FetchRequest(ids.v))
                               /\ response' = response
                               /\ pc' = "efetch"
    /\ UNCHANGED <<concVars, tool, arguments, search_result, max_results, sort_order, pmids, total_count, pmid,
                   similar_ids, queryVars, extractVars, parseVars, normVars>>

\* lines 359-399: the elink exchange ends; the related identifiers are
\* read, cut to max_results, and the efetch request is sent
ElinkReturns ==
    /\ pc = "elink"
    /\ \E outcome \in Faults \cup Documents(OpsLinkResults) :
           LET result == _make_api_request(outcome)
               related == IF IsRaise(result) THEN Raise ELSE ServerSimilarPmids(result, pmid)
               limited == IF IsRaise(related) THEN <<>>
                          ELSE SliceTo(related.v, max_results)
               ids == Join(<<",">>, limited)
           IN  /\ fault' = IF IsRaise(result) THEN result ELSE fault
               /\ IF IsRaise(result)
                  THEN /\ response' = SimilarFailed(pmid, result)
                       /\ pc' = "done"
                       /\ UNCHANGED <<link_result, similar_pmids, requests>>
                  ELSE /\ link_result' = result
                       /\ IF IsRaise(related)
                          THEN /\ response' = SimilarFailed(pmid, Raise)
                               /\ pc' = "done"
                               /\ UNCHANGED <<similar_pmids, requests>>
                          ELSE IF ~Truthy(related)
                          THEN /\ response' = NoSimilarFound(pmid)
                               /\ similar_pmids' = related
                               /\ pc' = "done"
                               /\ UNCHANGED requests
                          ELSE IF IsRaise(ids)
                          THEN /\ response' = SimilarFailed(pmid, Raise)
                               /\ similar_pmids' = List(limited)
                               /\ pc' = "done"
                               /\ UNCHANGED requests
                          ELSE /\ similar_pmids' = List(limited)
                               /\ requests' = Append(requests, FetchRequest(ids.v))
                               /\ response' = response
                               /\ pc' = "efetch"
    /\ UNCHANGED <<concVars, tool, arguments, search_result, max_results, sort_order, pmids, total_count, pmid,
                   similar_ids, queryVars, extractVars, parseVars, normVars>>

\* the efetch step that sends the request once more after a fault
EfetchReturnsWithRetry ==
    /\ pc = "efetch"
    /\ \E outcome \in Faults \cup Documents(FetchedSets) :
           LET fetch_result == _make_api_request(outcome)
           IN  /\ fault' = IF IsRaise(fetch_result) THEN fetch_result ELSE fault
               /\ IF IsRaise(fetch_result) /\ fault = None
                  THEN /\ requests' = Append(requests, requests[Len(requests)])
                       /\ UNCHANGED <<pc, response, xml_data, articles>>
                  ELSE IF IsRaise(fetch_result)
                  THEN /\ response' = RequestFailed(tool, pmid, fetch_result)
                       /\ pc' = "done"
                       /\ UNCHANGED <<requests, xml_data, articles>>
                  ELSE /\ xml_data' = fetch_result
                       /\ articles' = _parse_articles(fetch_result)
                       /\ response' =
                              CASE tool = "search_pubmed" ->
                                      SearchAnswer(articles', query, total_count, sort_order,
                                                   date_range)
                                [] tool = "get_publication_details" ->
                                      DetailsAnswer(articles', pmid)
                                [] OTHER -> SimilarAnswer(articles', pmid)
                       /\ pc' = "done"
                       /\ UNCHANGED requests
    /\ UNCHANGED <<concVars, tool, arguments, search_result, max_results, sort_order, pmids, total_count,
                   picked, rendered, linkVars, queryVars, extractVars, normVars>>

\* lines 257-288, 316-328 and 399-420: the efetch exchange ends; the
\* documents are parsed and the text is built
EfetchReturns ==
    /\ pc = "efetch"
    /\ \E outcome \in Faults \cup Documents(FetchedSets) :
           LET fetch_result == _make_api_request(outcome)
           IN  /\ fault' = IF IsRaise(fetch_result) THEN fetch_result ELSE fault
               /\ IF IsRaise(fetch_result)
                  THEN /\ response' = RequestFailed(tool, pmid, fetch_result)
                       /\ UNCHANGED <<xml_data, articles>>
                  ELSE /\ xml_data' = fetch_result
                       /\ articles' = _parse_articles(fetch_result)
                       /\ response' =
                              CASE tool = "search_pubmed" ->
                                      SearchAnswer(articles', query, total_count, sort_order,
                                                   date_range)
                                [] tool = "get_publication_details" ->
                                      DetailsAnswer(articles', pmid)
                                [] OTHER -> SimilarAnswer(articles', pmid)
    /\ pc' = "done"
    /\ UNCHANGED <<concVars, tool, arguments, search_result, max_results, sort_order, requests, pmids, total_count,
                   picked, rendered, linkVars, queryVars, extractVars, normVars>>

\* dispatch without the except clause of lines 140-145: the ValueError of
\* line 139 leaves handle_call_tool
CallUnknownPropagates ==
    /\ pc = "start"
    /\ tool \notin {"search_pubmed", "get_publication_details", "get_similar_articles"}
    /\ pc' = "raised"
    /\ UNCHANGED <<concVars, tool, arguments, search_result, fault, max_results, sort_order, requests, pmids, total_count,
                   response, linkVars, queryVars, extractVars, parseVars, normVars>>

\* lines 136-145: a name that is none of the three tools
CallUnknown ==
    /\ pc = "start"
    /\ tool \notin {"search_pubmed", "get_publication_details", "get_similar_articles"}
    /\ response' = ErrorExecuting(tool, Fault(<<"U", "n", "k", "n", "o", "w", "n", " ", "t", "o", "o", "l", ":", " ">> \o NameText(tool)))
    /\ pc' = "done"
    /\ UNCHANGED <<concVars, tool, arguments, search_result, fault, max_results, sort_order, requests, pmids, total_count,
                   linkVars, queryVars, extractVars, parseVars, normVars>>

NextOps ==
    \/ CallSearch
    \/ CallDetails
    \/ CallSimilar
    \/ CallUnknown
    \/ EsearchReturns
    \/ ElinkReturns
    \/ EfetchReturns

SpecOps == InitOps /\ [][NextOps]_vars

\* SpecDispatch: SpecOps with every started step finishing.  The steps of a
\* handler run to the next await without waiting on anything, and an
\* awaited exchange ends with a document or a fault because the client is
\* built with timeout=30.0 (line 170).
SpecDispatch == SpecOps /\ WF_vars(NextOps)

(***************************************************************************)
(* SpecPreview: SpecParse on documents whose abstract is a text around the *)
(* preview limit, with emphasis markers and blank lines in it              *)
(***************************************************************************)
MaxPieces == 3

\* the text of n characters c
Repeat(c, n) == [i \in 1..n |-> c]

\* the pieces an abstract ends with: a letter, a star, an emphasis marker,
\* a newline, a blank line
PreviewPieces == {<<"a">>, <<"*">>, <<"*", "*">>, <<"\n">>, <<"\n", "\n">>}

\* the lengths of the run of letters an abstract starts with
Paddings == {0, PreviewLimit - 2, PreviewLimit - 1, PreviewLimit}

PreviewTexts ==
    {Repeat("b", n) \o Flatten(l) : n \in Paddings, l \in SeqsUpTo(PreviewPieces, MaxPieces)}

\* abstract nodes: no text, a text, a labeled part followed by a bare part
PreviewAbstracts ==
    {D1("AbstractText", Str(t)) : t \in PreviewTexts}
        \cup {D1("AbstractText",
                 List(<<D2("@Label", Str(<<"L">>), "#text", Str(Repeat("b", n))),
                        D1("#text", Str(<<"t">>))>>)) : n \in {1} \cup (Paddings \ {0})}
        \cup {Dict(<<>>)}

PreviewData == {SetOf(ArticleWith("Abstract", n)) : n \in PreviewAbstracts}

InitPreview ==
    /\ pc = "start"
    /\ xml_data \in PreviewData
    /\ articles = None
    /\ picked = 0
    /\ rendered = None
    /\ LinksIdle /\ QueryIdle /\ ExtractIdle /\ NormIdle /\ OpsIdle

SpecPreview == InitPreview /\ [][NextParse]_vars

(***************************************************************************)
(* SpecConcurrent: two invocations of handle_call_tool on one server       *)
(* instance, in one event loop.  A coroutine runs from one await to the    *)
(* next without interruption; the awaits of a tool handler are its remote  *)
(* requests.  config holds the instance fields set by __init__;            *)
(* invocations[t] is what the client sent and what the remote answered;    *)
(* frames[t] holds the locals of the coroutine of invocation t, where it   *)
(* is suspended, the requests it has sent and the text it returned.        *)
(* MaxTasks invocations are in progress at once.                           *)
(***************************************************************************)
MaxTasks == 2
Tasks == 1..MaxTasks

BASE_URL == <<"https://eutils.ncbi.nlm.nih.gov/entrez/eutils">>

\* lines 43-47: the fields of the instance; the key is set or not
Configs ==
    {[api_key |-> k, email |-> <<>>, tool_name |-> <<"P", "u", "b", "M", "e", "d", "M", "C", "P", "S", "e", "r", "v", "e", "r">>, base_url |-> BASE_URL] :
        k \in {<<>>, <<"k">>}}

\* lines 149-165: the URL and the merged parameters of a request
FinalRequest(cfg, request) ==
    [url |-> cfg.base_url \o <<"/", request.endpoint>>,
     params |-> request.params
                    @@ ("retmode" :> <<"x", "m", "l">>) @@ ("rettype" :> <<"a", "b", "s", "t", "r", "a", "c", "t">>)
                    @@ (IF cfg.api_key # <<>> THEN "api_key" :> cfg.api_key ELSE <<>>)
                    @@ (IF cfg.email # <<>> THEN "email" :> cfg.email ELSE <<>>)
                    @@ (IF cfg.tool_name # <<>> THEN "tool" :> cfg.tool_name ELSE <<>>)]

\* the frame of a coroutine that has not run yet
StartFrame ==
    [at |-> "start", name |-> "", arguments |-> None, query |-> <<>>, date_range |-> <<>>,
     sort_order |-> <<>>, max_results |-> 0, pmid |-> <<>>, total_count |-> 0,
     sent |-> <<>>, response |-> None]

\* the coroutine returns a text
Return(fr, text) == [fr EXCEPT !.at = "done", !.response = text]

\* the coroutine sends a request and is suspended until its exchange ends
Await(fr, at, request) == [fr EXCEPT !.at = at, !.sent = Append(@, request)]

\* lines 193-225
BeginSearch(cfg, fr, now) ==
    IF ~Contains("query", fr.arguments)
    THEN Return(fr, ErrorExecuting(fr.name, Fault(<<"'", "q", "u", "e", "r", "y", "'">>)))
    ELSE LET q == fr.arguments.v["query"].v
             limit == Get(fr.arguments, "max_results", PyInt(10)).v
             sort == Get(fr.arguments, "sort", Str(<<"r", "e", "l", "e", "v", "a", "n", "c", "e">>)).v
             token == Get(fr.arguments, "date_range", Str(<<>>)).v
         IN  Await([fr EXCEPT !.query = q, !.max_results = limit, !.sort_order = sort,
                              !.date_range = token],
                   "esearch",
                   FinalRequest(cfg,
                       Request("esearch.fcgi",
                               ("db" :> PUBMED) @@ ("term" :> AugmentQuery(q, token, now))
                                   @@ ("retmax" :> ItoA(limit)) @@ ("sort" :> sort)
                                   @@ ("usehistory" :> <<"y">>))))

\* lines 297-316 and 337-359, past arguments["pmid"]
BeginWithPmid(cfg, fr, p) ==
    IF fr.name = "get_publication_details"
    THEN IF ~IsDigit(p) THEN Return(fr, InvalidPmidForDetails(p))
         ELSE Await([fr EXCEPT !.pmid = p], "efetch", FinalRequest(cfg, FetchRequest(p)))
    ELSE LET limit == Get(fr.arguments, "max_results", PyInt(10)).v
         IN  IF ~IsDigit(p) THEN Return(fr, InvalidPmidForSimilar(p))
             ELSE Await([fr EXCEPT !.pmid = p, !.max_results = limit], "elink",
                        FinalRequest(cfg,
                            Request("elink.fcgi",
                                    ("dbfrom" :> PUBMED) @@ ("db" :> PUBMED) @@ ("id" :> p)
                                        @@ ("linkname" :> <<"p", "u", "b", "m", "e", "d", "_", "p", "u", "b", "m", "e", "d">>)
                                        @@ ("retmax" :> ItoA(limit + 1)))))

\* lines 129-145: handle_call_tool up to the first await of the handler, or
\* to its return
Begin(cfg, inv) ==
    LET fr == [StartFrame EXCEPT !.name = inv.name, !.arguments = inv.arguments]
    IN  CASE inv.name = "search_pubmed" -> BeginSearch(cfg, fr, inv.now)
          [] inv.name \in {"get_publication_details", "get_similar_articles"} ->
                IF ~Contains("pmid", inv.arguments)
                THEN Return(fr, ErrorExecuting(inv.name, Fault(<<"'", "p", "m", "i", "d", "'">>)))
                ELSE IF ~IsStr(inv.arguments.v["pmid"])
                THEN Return(fr, ErrorExecuting(inv.name, Raise))
                ELSE BeginWithPmid(cfg, fr, Strip(inv.arguments.v["pmid"].v))
          [] OTHER ->
                Return(fr, ErrorExecuting(inv.name, Fault(<<"U", "n", "k", "n", "o", "w", "n", " ", "t", "o", "o", "l", ":", " ">> \o NameText(inv.name))))

\* lines 228-257, for the identifiers read from the esearch document
IdsRead(cfg, fr, found) ==
    IF IsRaise(found.pmids) THEN Return(fr, SearchFailed(Raise))
    ELSE IF ~Truthy(found.pmids)
    THEN Return([fr EXCEPT !.total_count = found.total_count.v], NoPublicationsFound(fr.query))
    ELSE IF IsRaise(Join(<<",">>, found.pmids.v))
    THEN Return([fr EXCEPT !.total_count = found.total_count.v], SearchFailed(Raise))
    ELSE Await([fr EXCEPT !.total_count = found.total_count.v], "efetch",
               FinalRequest(cfg, FetchRequest(Join(<<",">>, found.pmids.v).v)))

\* lines 389-399, for the identifiers joined after the cut
LimitedRead(cfg, fr, ids) ==
    IF IsRaise(ids) THEN Return(fr, SimilarFailed(fr.pmid, Raise))
    ELSE Await(fr, "efetch", FinalRequest(cfg, FetchRequest(ids.v)))

\* lines 361-399, for the identifiers read from the elink document
LinksRead(cfg, fr, related) ==
    IF IsRaise(related) THEN Return(fr, SimilarFailed(fr.pmid, Raise))
    ELSE IF ~Truthy(related) THEN Return(fr, NoSimilarFound(fr.pmid))
    ELSE LimitedRead(cfg, fr, Join(<<",">>, SliceTo(related.v, fr.max_results)))

\* lines 260-288, 317-328 and 400-420, for the parsed records
Answer(fr, records) ==
    CASE fr.name = "search_pubmed" ->
            SearchAnswer(records, fr.query, fr.total_count, fr.sort_order, fr.date_range)
      [] fr.name = "get_publication_details" -> DetailsAnswer(records, fr.pmid)
      [] OTHER -> SimilarAnswer(records, fr.pmid)

\* the coroutine continues with what _make_api_request gave
Continue(cfg, fr, returned) ==
    CASE fr.at = "esearch" ->
            IF IsRaise(returned) THEN Return(fr, SearchFailed(returned))
            ELSE IdsRead(cfg, fr, SearchResultIds(returned))
      [] fr.at = "elink" ->
            IF IsRaise(returned) THEN Return(fr, SimilarFailed(fr.pmid, returned))
            ELSE LinksRead(cfg, fr, ServerSimilarPmids(returned, fr.pmid))
      [] fr.at = "efetch" ->
            IF IsRaise(returned) THEN Return(fr, RequestFailed(fr.name, fr.pmid, returned))
            ELSE Return(fr, Answer(fr, _parse_articles(returned)))
      [] OTHER -> fr

\* the coroutine suspended in fr is resumed when its exchange ends with
\* outcome, and runs to its next await or to its return
Resume(cfg, fr, outcome) == Continue(cfg, fr, _make_api_request(outcome))

\* the invocation run with no other invocation on the instance, given the
\* outcomes of its exchanges in order
RECURSIVE RunOn(_, _, _)
RunOn(cfg, fr, outcomes) ==
    IF outcomes = <<>> THEN fr
    ELSE RunOn(cfg, Resume(cfg, fr, Head(outcomes)), Tail(outcomes))

Alone(cfg, inv) == RunOn(cfg, Begin(cfg, inv), inv.replies)

\* the locals kept in one place for all invocations of the instance
SharedFrame(t) == frames[1]

\* the locals of invocation t: the frame of its own coroutine
Frame(t) == frames[t]

\* the calls two invocations are drawn from: one of each tool, and a name
\* that is no tool
ConcCalls ==
    {<<"search_pubmed", Dict(("query" :> Str(<<"c", "a", "n", "c", "e", "r">>)) @@ ("date_range" :> Str(<<"l", "a", "s", "t", "_", "y", "e", "a", "r">>)))>>,
     <<"get_publication_details", Dict("pmid" :> Str(<<"1">>))>>,
     <<"get_similar_articles", Dict("pmid" :> Str(<<" ", "2", " ">>) @@ ("max_results" :> PyInt(1)))>>,
     <<"other", Dict(<<>>)>>}

\* the outcomes of the exchange a coroutine is suspended on
ConcOutcomes(at) ==
    {[kind |-> "timeout"]}
        \cup CASE at = "esearch" ->
                    Documents({SearchResultOf(("Count" :> Str(<<"2">>))
                                   @@ ("IdList" :> D1("Id", List(<<Str(<<"1">>), Str(<<"2">>)>>)))),
                               SearchResultOf("Count" :> Str(<<"0">>))})
               [] at = "elink" ->
                    Documents({LinkResultOf(LinkSetOf(DbOf(PUBMED,
                                   List(<<LinkE(<<"1">>), LinkE(<<"2">>), LinkE(<<"3">>)>>)))),
                               LinkResultOf(LinkSetOf(DbOf(PUBMED, LinkE(<<"2">>))))})
               [] OTHER ->
                    Documents({SetOf(GoodDoc("1")), SetOf(List(<<>>))})

InitConcurrent ==
    /\ pc = "start"
    /\ LinksIdle /\ QueryIdle /\ ExtractIdle /\ ParseIdle /\ NormIdle /\ SoloIdle
    /\ config \in Configs
    /\ invocations \in [Tasks -> {[name |-> c[1], arguments |-> c[2], now |-> y, replies |-> <<>>] :
                                      c \in ConcCalls, y \in {2026}}]
    /\ frames = [t \in Tasks |-> StartFrame]

\* the event loop starts the coroutine of invocation t
Invoke(t) ==
    /\ frames[t].at = "start"
    /\ frames' = [frames EXCEPT ![t] = Begin(config, invocations[t])]
    /\ UNCHANGED <<pc, config, invocations, linkVars, queryVars, extractVars, parseVars,
                   normVars, soloVars>>

\* the exchange invocation t waits for ends, and its coroutine is resumed
Deliver(t) ==
    /\ frames[t].at \in {"esearch", "elink", "efetch"}
    /\ \E outcome \in ConcOutcomes(frames[t].at) :
           /\ frames' = [frames EXCEPT ![t] = Resume(config, Frame(t), outcome)]
           /\ invocations' = [invocations EXCEPT ![t].replies = Append(@, outcome)]
    /\ UNCHANGED <<pc, config, linkVars, queryVars, extractVars, parseVars, normVars,
                   soloVars>>

NextConcurrent == \E t \in Tasks : Invoke(t) \/ Deliver(t)

SpecConcurrent == InitConcurrent /\ [][NextConcurrent]_vars

(***************************************************************************)
(* Claims                                                                  *)
(***************************************************************************)
NoOrigin(ids, origin) == \A i \in 1..Len(ids) : ids[i] # Str(origin)

\* C1: the identifiers resolved by the similar-articles operation (server.py
\* and app.py) never contain the origin PMID, whether the origin is among
\* the links once, several times, first, or as the only link.
C1_SelfExclusion ==
    /\ (pc = "server" /\ IsList(similar_pmids)) => NoOrigin(similar_pmids.v, pmid)
    /\ (pc = "app" /\ IsList(similar_ids)) => NoOrigin(similar_ids.v, pmid)

\* the origin is first and last of three links; one identifier is resolved
C1_Witness ==
    /\ pc = "server"
    /\ pmid = <<"1">>
    /\ link_result = LinkResultOf(LinkSetOf(DbOf(PUBMED,
                         List(<<LinkE(<<"1">>), LinkE(<<"2">>), LinkE(<<"1">>)>>))))
    /\ similar_pmids = List(<<Str(<<"2">>)>>)

\* the identifiers of the link entries of one link-set-database, a single
\* mapping and a sequence alike
AsSeq(x) == IF IsList(x) THEN x.v ELSE IF IsDict(x) THEN <<x>> ELSE <<>>

DbLinkIds(db, origin) ==
    IF IsDict(db) /\ "DbTo" \in DOMAIN db.v /\ db.v["DbTo"] = Str(PUBMED)
       /\ "Link" \in DOMAIN db.v
    THEN LET links == AsSeq(db.v["Link"])
             ids == [i \in 1..Len(links) |->
                        IF "Id" \in DOMAIN links[i].v THEN <<links[i].v["Id"]>> ELSE <<>>]
         IN  SelectSeq(Flatten(ids), LAMBDA id : id # Str(origin))
    ELSE <<>>

LinkSetLinkIds(linkset, origin) ==
    IF IsDict(linkset) /\ "LinkSetDb" \in DOMAIN linkset.v
    THEN LET dbs == AsSeq(linkset.v["LinkSetDb"])
         IN  Flatten([i \in 1..Len(dbs) |-> DbLinkIds(dbs[i], origin)])
    ELSE <<>>

\* every link entry of every link-set-database to the origin database, of
\* every link-set, in input order, minus the origin
AllLinkIds(result, origin) ==
    IF IsDict(result) /\ "eLinkResult" \in DOMAIN result.v
       /\ IsDict(result.v["eLinkResult"])
       /\ "LinkSet" \in DOMAIN result.v["eLinkResult"].v
    THEN LET sets == AsSeq(result.v["eLinkResult"].v["LinkSet"])
         IN  Flatten([i \in 1..Len(sets) |-> LinkSetLinkIds(sets[i], origin)])
    ELSE <<>>

\* C8: the resolved identifier sequence equals, in input order, the
\* identifiers of all link entries of every link-set-database to the origin
\* database across every link-set, minus the origin; single mappings and
\* sequences are treated alike.
C8_CoverageAndOrder ==
    /\ (pc = "server" /\ IsList(similar_pmids))
           => similar_pmids.v = AllLinkIds(link_result, pmid)
    /\ (pc = "app" /\ IsList(similar_ids))
           => similar_ids.v = AllLinkIds(link_result, pmid)

\* the same statement of app.py alone
C8_AppCoverageAndOrder ==
    (pc = "app" /\ IsList(similar_ids)) => similar_ids.v = AllLinkIds(link_result, pmid)

\* the clause of the first matching rule, <<>> when no rule matches
FourDigits(t) == Len(t) = 4 /\ \A i \in 1..4 : t[i] \in {"0", "1", "2", "3", "4", "5", "6", "7", "8", "9"}
Clause(t, y) ==
    CASE t = LAST_5_YEARS -> AND \o ItoA(y - 5) \o <<":">> \o ItoA(y) \o PDAT
      [] t = LAST_YEAR -> AND \o ItoA(y - 1) \o <<":">> \o ItoA(y) \o PDAT
      [] t \notin {LAST_5_YEARS, LAST_YEAR} /\ (\E i \in DOMAIN t : t[i] = ":")
            -> AND \o t \o PDAT
      [] t \notin {LAST_5_YEARS, LAST_YEAR} /\ ~(\E i \in DOMAIN t : t[i] = ":")
            /\ FourDigits(t) -> AND \o t \o PDAT
      [] OTHER -> <<>>

ChildKey(name) ==
    CASE name = "authors" -> "Author"
      [] name = "pub_date" -> "PubDate"
      [] name = "abstract" -> "AbstractText"
      [] name = "keywords" -> "Keyword"
      [] name = "publication_types" -> "PublicationType"
      [] name = "mesh_terms" -> "MeshHeading"

Apply(name, n) ==
    CASE name = "authors" -> _extract_authors(n)
      [] name = "pub_date" -> _extract_pub_date(n)
      [] name = "abstract" -> _extract_abstract(n)
      [] name = "doi" -> _extract_doi(n)
      [] name = "keywords" -> _extract_keywords(n)
      [] name = "publication_types" -> _extract_publication_types(n)
      [] name = "mesh_terms" -> _extract_mesh_terms(n)

\* the child of the argument an extractor normalises (for the DOI, the
\* argument itself is the identifier list)
HasChild(name, n) ==
    IF name = "doi" THEN TRUE ELSE IsDict(n) /\ ChildKey(name) \in DOMAIN n.v
ChildOf(name, n) == IF name = "doi" THEN n ELSE n.v[ChildKey(name)]
WithChild(name, n, child) ==
    IF name = "doi" THEN child ELSE Dict([n.v EXCEPT ![ChildKey(name)] = child])

CardinalityFields ==
    {"authors", "abstract", "doi", "keywords", "publication_types", "mesh_terms"}

RECURSIVE TextMapping(_)
\* a mapping of texts and of such mappings, its inner text a text
TextMapping(m) ==
    /\ IsDict(m)
    /\ \A key \in DOMAIN m.v :
           IsStr(m.v[key]) \/ (key # "#text" /\ TextMapping(m.v[key]))

InvariantUnderWrapping(name, n) ==
    (HasChild(name, n) /\ TextMapping(ChildOf(name, n)))
        => value = Apply(name, WithChild(name, n, List(<<ChildOf(name, n)>>)))

\* C3: for each field extractor and every mapping m, the container whose
\* child is the single mapping m and the container whose child is the
\* one-element sequence [m] yield identical values; in particular an
\* AbstractText given as one labeled mapping and as a one-element sequence.
C3_CardinalityInvariance ==
    (pc = "extracted" /\ extractor \in CardinalityFields)
        => InvariantUnderWrapping(extractor, argument)

\* the same statement of the five extractors other than _extract_abstract
C3_OtherFieldsInvariant ==
    (pc = "extracted" /\ extractor \in CardinalityFields \ {"abstract"})
        => InvariantUnderWrapping(extractor, argument)

\* the name one author entry is rendered as (none without a last name)
PlainField(author, key) ==
    key \notin DOMAIN author.v \/ IsStr(author.v[key])
PlainAuthor(author) ==
    IsStr(author) \/ (IsDict(author) /\ PlainField(author, "LastName")
                        /\ PlainField(author, "ForeName")
                        /\ PlainField(author, "Initials"))
FieldText(author, key) ==
    IF key \in DOMAIN author.v THEN author.v[key].v ELSE <<>>
RenderedName(author) ==
    IF IsStr(author) \/ FieldText(author, "LastName") = <<>> THEN <<>>
    ELSE IF FieldText(author, "ForeName") # <<>>
         THEN <<FieldText(author, "LastName") \o <<" ">> \o FieldText(author, "ForeName")>>
    ELSE IF FieldText(author, "Initials") # <<>>
         THEN <<FieldText(author, "LastName") \o <<" ">> \o FieldText(author, "Initials")>>
    ELSE <<FieldText(author, "LastName")>>
RenderedNames(authors) == Flatten([i \in 1..Len(authors) |-> RenderedName(authors[i])])

EndsWith(s, suffix) ==
    Len(s) >= Len(suffix) /\ SubSeq(s, Len(s) - Len(suffix) + 1, Len(s)) = suffix

\* an author list whose entries are scalars or mappings with textual names
PlainAuthorList ==
    /\ pc = "extracted" /\ extractor = "authors"
    /\ IsDict(argument) /\ "Author" \in DOMAIN argument.v
    /\ IsList(argument.v["Author"])
    /\ \A i \in 1..Len(argument.v["Author"].v) : PlainAuthor(argument.v["Author"].v[i])

\* C4 as stated: more than 15 entries yield exactly 15 rendered names, those
\* of the first 15 entries in input order, followed by ", et al."; 15 or
\* fewer entries yield no "et al." suffix.
C4_AuthorTruncation ==
    PlainAuthorList =>
        LET authors == argument.v["Author"].v
            names == RenderedNames(Take(authors, 15))
        IN  IF Len(authors) > 15
            THEN Len(names) = 15 /\ value = Str(JoinChars(<<",", " ">>, names) \o <<",", " ", "e", "t", " ", "a", "l", ".">>)
            ELSE ~EndsWith(value.v, <<",", " ", "e", "t", " ", "a", "l", ".">>)

\* C4 amended: more than 15 entries yield the rendered names of those of the
\* first 15 entries that have a last name (15 names when all of them have
\* one), in input order, followed by ", et al."; 15 or fewer entries yield
\* no "et al." suffix.
C4_AuthorTruncationAmended ==
    PlainAuthorList =>
        LET authors == argument.v["Author"].v
            first == Take(authors, 15)
            names == RenderedNames(first)
        IN  IF Len(authors) > 15
            THEN /\ value = Str(JoinChars(<<",", " ">>, names) \o <<",", " ", "e", "t", " ", "a", "l", ".">>)
                 /\ Len(names) <= 15
                 /\ (\A i \in 1..15 : RenderedName(first[i]) # <<>>) => Len(names) = 15
            ELSE ~EndsWith(value.v, <<",", " ", "e", "t", " ", "a", "l", ".">>)

\* sixteen authors, the third a collective name: fourteen names and the suffix
C4_Witness ==
    /\ pc = "extracted" /\ extractor = "authors"
    /\ argument = D1("Author", List(AuthorsWith(16, "full", 3, "collective")))
    /\ value = Str(JoinChars(<<",", " ">>,
                     [i \in 1..14 |-> LET j == IF i < 3 THEN i ELSE i + 1
                                      IN  <<LOWER[j], " ", UPPER[j]>>]) \o <<",", " ", "e", "t", " ", "a", "l", ".">>)

\* the text of one keyword: a scalar, or the inner text of a mapping
KeywordIsText(keyword) ==
    \/ IsStr(keyword)
    \/ IsDict(keyword) /\ ("#text" \in DOMAIN keyword.v => IsStr(keyword.v["#text"]))
KeywordText(keyword) ==
    IF IsStr(keyword) THEN keyword.v
    ELSE IF "#text" \in DOMAIN keyword.v THEN keyword.v["#text"].v ELSE <<>>

\* the members of texts that no earlier member equals ignoring case
FirstOccurrences(texts) ==
    Flatten([i \in 1..Len(texts) |->
                IF \E j \in 1..(i - 1) : LowerStr(texts[j]) = LowerStr(texts[i])
                THEN <<>> ELSE <<Str(texts[i])>>])

KeywordListCase ==
    /\ pc = "extracted" /\ extractor = "keywords"
    /\ IsDict(argument) /\ "Keyword" \in DOMAIN argument.v
    /\ IsList(argument.v["Keyword"])
    /\ \A i \in 1..Len(argument.v["Keyword"].v) : KeywordIsText(argument.v["Keyword"].v[i])

\* C6: _extract_keywords returns the keyword texts in input order without
\* every keyword whose lower-cased text equals that of an earlier keyword;
\* the first occurrence keeps its casing and no two output keywords are
\* equal ignoring case.
C6_KeywordDedup ==
    KeywordListCase =>
        LET keywords == argument.v["Keyword"].v
            texts == SelectSeq([i \in 1..Len(keywords) |-> KeywordText(keywords[i])],
                               LAMBDA t : t # <<>>)
        IN  /\ value = List(FirstOccurrences(texts))
            /\ \A i, j \in 1..Len(value.v) :
                   i # j => LowerStr(value.v[i].v) # LowerStr(value.v[j].v)

\* ["AI", "ai", "ML"] gives ["AI", "ML"]
C6_Witness ==
    /\ pc = "extracted" /\ extractor = "keywords"
    /\ argument = D1("Keyword", List(<<Str(<<"A", "I">>), Str(<<"a", "i">>), Str(<<"M", "L">>)>>))
    /\ value = List(<<Str(<<"A", "I">>), Str(<<"M", "L">>)>>)

\* the term of one heading: the inner text of its descriptor mapping
HeadingIsPlain(heading) ==
    (IsDict(heading) /\ "DescriptorName" \in DOMAIN heading.v
        /\ IsDict(heading.v["DescriptorName"])
        /\ "#text" \in DOMAIN heading.v["DescriptorName"].v)
        => IsStr(heading.v["DescriptorName"].v["#text"])
TermOf(heading) ==
    IF IsDict(heading) /\ "DescriptorName" \in DOMAIN heading.v
       /\ IsDict(heading.v["DescriptorName"])
       /\ "#text" \in DOMAIN heading.v["DescriptorName"].v
       /\ heading.v["DescriptorName"].v["#text"].v # <<>>
    THEN <<heading.v["DescriptorName"].v["#text"]>>
    ELSE <<>>
TermsOf(headings) == Flatten([i \in 1..Len(headings) |-> TermOf(headings[i])])

MeshListCase ==
    /\ pc = "extracted" /\ extractor = "mesh_terms"
    /\ IsDict(argument) /\ "MeshHeading" \in DOMAIN argument.v
    /\ IsList(argument.v["MeshHeading"])
    /\ \A i \in 1..Len(argument.v["MeshHeading"].v) :
           HeadingIsPlain(argument.v["MeshHeading"].v[i])

\* C7 as stated: more than 10 headings yield exactly 10 terms, the terms of
\* the first 10 headings in input order, with no marker of the dropped ones;
\* 10 or fewer headings yield all of their terms.
C7_MeshTruncation ==
    MeshListCase =>
        LET headings == argument.v["MeshHeading"].v
        IN  IF Len(headings) > 10
            THEN Len(value.v) = 10 /\ value.v = TermsOf(Take(headings, 10))
            ELSE value.v = TermsOf(headings)

\* C7 amended: more than 10 headings yield the terms of those of the first
\* 10 headings that carry a descriptor text (10 terms when all of them do),
\* in input order, with no marker of the dropped ones; 10 or fewer headings
\* yield all of their terms.
C7_MeshTruncationAmended ==
    MeshListCase =>
        LET headings == argument.v["MeshHeading"].v
            first == Take(headings, 10)
        IN  IF Len(headings) > 10
            THEN /\ value.v = TermsOf(first)
                 /\ Len(value.v) <= 10
                 /\ (\A i \in 1..10 : TermOf(first[i]) # <<>>) => Len(value.v) = 10
            ELSE value.v = TermsOf(headings)

\* eleven headings, the second without a descriptor: nine terms
C7_Witness ==
    /\ pc = "extracted" /\ extractor = "mesh_terms"
    /\ argument = D1("MeshHeading", List(HeadingsWith(11, 2, "qualifier")))
    /\ value = List([i \in 1..9 |-> Str(<<LOWER[IF i < 2 THEN i ELSE i + 1]>>)])

BodyOf(name, n) ==
    CASE name = "authors" -> ExtractAuthorsBody(n)
      [] name = "pub_date" -> ExtractPubDateBody(n)
      [] name = "abstract" -> ExtractAbstractBody(n)
      [] name = "doi" -> ExtractDoiBody(n)
      [] name = "keywords" -> ExtractKeywordsBody(n)
      [] name = "publication_types" -> ExtractPublicationTypesBody(n)
      [] name = "mesh_terms" -> ExtractMeshTermsBody(n)

DefaultOf(name) ==
    CASE name = "authors" -> Str(<<"A", "u", "t", "h", "o", "r", "s", " ", "n", "o", "t", " ", "a", "v", "a", "i", "l", "a", "b", "l", "e">>)
      [] name = "pub_date" -> Str(<<"D", "a", "t", "e", " ", "n", "o", "t", " ", "a", "v", "a", "i", "l", "a", "b", "l", "e">>)
      [] name = "abstract" -> Str(<<>>)
      [] name = "doi" -> Str(<<>>)
      [] name = "keywords" -> List(<<>>)
      [] name = "publication_types" -> List(<<>>)
      [] name = "mesh_terms" -> List(<<>>)

\* C9: for every node passed as its argument each field extractor returns a
\* value without raising, and returns the field's documented default when
\* its body hits an inconsistency.
C9_ExtractorTotality ==
    pc = "extracted" =>
        /\ ~IsRaise(value)
        /\ IsRaise(BodyOf(extractor, argument)) => value = DefaultOf(extractor)

\* an author list given as a scalar: the lookup fails, the default is returned
C9_Witness ==
    /\ pc = "extracted" /\ extractor = "authors"
    /\ argument = Str(<<"x">>)
    /\ IsRaise(ExtractAuthorsBody(argument))
    /\ value = Str(<<"A", "u", "t", "h", "o", "r", "s", " ", "n", "o", "t", " ", "a", "v", "a", "i", "l", "a", "b", "l", "e">>)

(***************************************************************************)
(* Claims on building and rendering records                                *)
(***************************************************************************)
\* the documents of a document set, a single one and a sequence alike
DocumentsOf(data) ==
    IF IsDict(data) /\ "PubmedArticleSet" \in DOMAIN data.v
       /\ IsDict(data.v["PubmedArticleSet"])
       /\ "PubmedArticle" \in DOMAIN data.v["PubmedArticleSet"].v
    THEN LET d == data.v["PubmedArticleSet"].v["PubmedArticle"]
         IN  IF IsList(d) THEN d.v ELSE <<d>>
    ELSE <<>>

\* C2: _parse_articles returns without raising, and its output holds exactly
\* one record for each document whose single-document build succeeds, in
\* input order; a document whose build fails is dropped and the documents
\* after it are still processed.
C2_BatchResilience ==
    pc = "parsed" =>
        LET docs == DocumentsOf(xml_data)
        IN  /\ IsList(articles)
            /\ articles.v = Flatten([i \in 1..Len(docs) |->
                                        IF IsRaise(ParseSingleBody(docs[i])) THEN <<>>
                                        ELSE <<ParseSingleBody(docs[i])>>])

\* document 2 of 3 is malformed: the records of documents 1 and 3 are returned
C2_Witness ==
    /\ pc = "parsed"
    /\ xml_data = SetOf(List(<<GoodDoc("1"), Str(<<"x">>), GoodDoc("2")>>))
    /\ Len(articles.v) = 2
    /\ articles.v[1].v["pmid"] = Str(<<"1">>)
    /\ articles.v[2].v["pmid"] = Str(<<"2">>)

\* C10: for every record _parse_single_article can return, the summary and
\* the detail rendering each return a string without raising.
C10_RenderingTotality ==
    pc \in {"summary", "details"} => IsStr(rendered)

\* rendering returns a string exactly when the abstract is textual or empty
\* (summary), the publication types and MeSH terms are textual (details)
C10_TotalOnTextualRecords ==
    /\ pc = "summary" =>
           (IsStr(rendered) <=>
               (Truthy(articles.v[picked].v["abstract"])
                    => IsStr(articles.v[picked].v["abstract"])))
    /\ pc = "details" =>
           (IsStr(rendered) <=>
               /\ \A i \in 1..Len(articles.v[picked].v["publication_types"].v) :
                      IsStr(articles.v[picked].v["publication_types"].v[i])
               /\ \A i \in 1..Len(articles.v[picked].v["mesh_terms"].v) :
                      IsStr(articles.v[picked].v["mesh_terms"].v[i]))

(***************************************************************************)
(* Claims on the canonicalization to a sequence                            *)
(***************************************************************************)
\* the sequence the normalizer contract gives for a child of a parent
ContractSequence(name, node) ==
    IF name \notin DOMAIN node.v \/ ~Truthy(node.v[name]) THEN <<>>
    ELSE IF IsList(node.v[name]) THEN node.v[name].v
    ELSE <<node.v[name]>>

\* C11: at every site the canonicalized child is the empty sequence when the
\* key is absent or its value is falsy, a one-element sequence when the value
\* is a single mapping or scalar, and the value itself when it is a sequence.
C11_NormalizerContract ==
    pc \in {"normalized", "renormalized"} =>
        children = List(ContractSequence(site, parent))

\* the contract holds at the sites that test the value before wrapping it
C11_GuardedSitesContract ==
    (pc \in {"normalized", "renormalized"}
        /\ site \in {"ELocationID", "Keyword", "PublicationType", "MeshHeading"})
    => children = List(ContractSequence(site, parent))

\* C12: the canonicalization applied to its own output gives the sequence
\* it gave when applied once, for every input node.
C12_IdempotentNormalization ==
    pc = "renormalized" => again = children

\* a scalar keyword is wrapped once, and wrapping the result changes nothing
C12_Witness ==
    /\ pc = "renormalized"
    /\ site = "Keyword"
    /\ parent = D1("Keyword", Str(<<"a", "b">>))
    /\ children = List(<<Str(<<"a", "b">>)>>)
    /\ again = children

(***************************************************************************)
(* Claims on the text of single fields                                     *)
(***************************************************************************)
\* an author child, one entry or a sequence, of scalars or mappings with
\* textual names
PlainAuthors ==
    /\ pc = "extracted" /\ extractor = "authors"
    /\ IsDict(argument) /\ "Author" \in DOMAIN argument.v
    /\ \A i \in 1..Len(AsSeq(argument.v["Author"])) :
           PlainAuthor(AsSeq(argument.v["Author"])[i])

\* the name the format gives one entry: "Last Fore", else "Last Initials",
\* else "Last"; no name without a last name
NameByFormat(author) ==
    LET last == IF IsDict(author) THEN FieldText(author, "LastName") ELSE <<>>
        fore == IF IsDict(author) THEN FieldText(author, "ForeName") ELSE <<>>
        init == IF IsDict(author) THEN FieldText(author, "Initials") ELSE <<>>
    IN  CASE last = <<>> -> <<>>
          [] last # <<>> /\ fore # <<>> -> <<last \o <<" ">> \o fore>>
          [] last # <<>> /\ fore = <<>> /\ init # <<>> -> <<last \o <<" ">> \o init>>
          [] OTHER -> <<last>>

\* C13: each of the first 15 entries that has a last name is rendered as
\* "LastName ForeName", else "LastName Initials", else "LastName"; an entry
\* without a last name contributes nothing to the joined string, and the
\* names keep input order.
C13_AuthorNameFormat ==
    PlainAuthors =>
        LET authors == AsSeq(argument.v["Author"])
            first == SubSeq(authors, 1, IF Len(authors) < 15 THEN Len(authors) ELSE 15)
            names == Flatten([i \in 1..Len(first) |-> NameByFormat(first[i])])
            joined == JoinChars(<<",", " ">>, names)
        IN  value = Str(IF Len(authors) > 15 THEN joined \o <<",", " ", "e", "t", " ", "a", "l", ".">>
                        ELSE IF names # <<>> THEN joined
                        ELSE <<"A", "u", "t", "h", "o", "r", "s", " ", "n", "o", "t", " ", "a", "v", "a", "i", "l", "a", "b", "l", "e">>)

\* three authors: fore name and initials, no last name, initials only
C13_Witness ==
    /\ pc = "extracted" /\ extractor = "authors"
    /\ argument = D1("Author", List(<<AuthorOf("both", 1), AuthorOf("collective", 2),
                                      AuthorOf("initials", 3)>>))
    /\ value = Str(<<"a", " ", "A", ",", " ", "c", " ", "C">>)

\* the date fields of a journal-issue node (none unless PubDate is a mapping)
PubDateOf(n) ==
    IF IsDict(n) /\ "PubDate" \in DOMAIN n.v /\ IsDict(n.v["PubDate"])
    THEN n.v["PubDate"].v
    ELSE <<>>
DateFieldText(pd, field) == IF field \in DOMAIN pd THEN pd[field].v ELSE <<>>

\* C14: MedlineDate is returned verbatim whenever present, even beside
\* Year/Month/Day; otherwise the result is "Year", "Year Month" or
\* "Year Month Day" (Day only with Month, nothing without Year); otherwise it
\* is "Date not available".
C14_PublicationDate ==
    (pc = "extracted" /\ extractor = "pub_date") =>
        LET pd == PubDateOf(argument)
            medline == DateFieldText(pd, "MedlineDate")
            year == DateFieldText(pd, "Year")
            month == DateFieldText(pd, "Month")
            day == DateFieldText(pd, "Day")
        IN  (\A k \in DOMAIN pd : IsStr(pd[k])) =>
                value = Str(CASE medline # <<>> -> medline
                              [] medline = <<>> /\ year = <<>> -> <<"D", "a", "t", "e", " ", "n", "o", "t", " ", "a", "v", "a", "i", "l", "a", "b", "l", "e">>
                              [] medline = <<>> /\ year # <<>> /\ month = <<>> -> year
                              [] medline = <<>> /\ year # <<>> /\ month # <<>> /\ day = <<>> ->
                                    year \o <<" ">> \o month
                              [] OTHER -> year \o <<" ">> \o month \o <<" ">> \o day)

\* all four fields present: the pre-composed string wins
C14_Witness ==
    /\ pc = "extracted" /\ extractor = "pub_date"
    /\ argument = D1("PubDate", Dict([k \in DateFields |-> Str(DateText(k))]))
    /\ value = Str(<<"2", "0", "2", "0", " ", "J", "a", "n", "-", "F", "e", "b">>)

\* year, month and day without a pre-composed string
C14_ComposedWitness ==
    /\ pc = "extracted" /\ extractor = "pub_date"
    /\ argument = D1("PubDate", Dict([k \in {"Year", "Month", "Day"} |-> Str(DateText(k))]))
    /\ value = Str(<<"2", "0", "2", "0", " ", "J", "a", "n", " ", "7">>)

\* a part of an abstract that is a text or a mapping of texts
PlainPart(part) ==
    IsStr(part) \/ (IsDict(part) /\ \A key \in DOMAIN part.v : IsStr(part.v[key]))

\* an abstract node whose abstract-text field is absent, a plain part or a
\* sequence of plain parts
PlainAbstract ==
    /\ pc = "extracted" /\ extractor = "abstract"
    /\ IsDict(argument)
    /\ "AbstractText" \in DOMAIN argument.v =>
           LET a == argument.v["AbstractText"]
           IN  IF IsList(a) THEN \A i \in 1..Len(a.v) : PlainPart(a.v[i]) ELSE PlainPart(a)

\* "**Label:** text" for a labeled part, the bare text otherwise
PartText(part) ==
    IF IsStr(part) THEN part.v
    ELSE IF FieldText(part, "@Label") # <<>>
         THEN <<"*", "*">> \o FieldText(part, "@Label") \o <<":", "*", "*", " ">>
                  \o FieldText(part, "#text")
    ELSE FieldText(part, "#text")

\* the result for an abstract-text field that is not a sequence
UnstructuredAbstract(n) ==
    IF "AbstractText" \notin DOMAIN n.v THEN <<>>
    ELSE IF IsStr(n.v["AbstractText"]) THEN n.v["AbstractText"].v
    ELSE FieldText(n.v["AbstractText"], "#text")

\* C15 as stated: a sequence is rendered part by part, "**Label:** text" for
\* a labeled part and the bare text otherwise, joined by a blank line in
\* input order; a single labeled mapping gives its inner text, a scalar
\* itself, an absent field the empty string.
C15_AbstractExtraction ==
    PlainAbstract =>
        IF "AbstractText" \in DOMAIN argument.v /\ IsList(argument.v["AbstractText"])
        THEN LET parts == argument.v["AbstractText"].v
             IN  value = Str(JoinChars(<<"\n", "\n">>,
                                       [i \in 1..Len(parts) |-> PartText(parts[i])]))
        ELSE value = Str(UnstructuredAbstract(argument))

\* C15 amended: as stated, but a mapping part without an inner text is left
\* out of the sequence that is joined.
C15_AbstractExtractionAmended ==
    PlainAbstract =>
        IF "AbstractText" \in DOMAIN argument.v /\ IsList(argument.v["AbstractText"])
        THEN LET parts == argument.v["AbstractText"].v
                 kept == Flatten([i \in 1..Len(parts) |->
                             IF IsDict(parts[i]) /\ FieldText(parts[i], "#text") = <<>>
                             THEN <<>> ELSE <<PartText(parts[i])>>])
             IN  value = Str(JoinChars(<<"\n", "\n">>, kept))
        ELSE value = Str(UnstructuredAbstract(argument))

\* a labeled part and a bare part, joined by a blank line
C15_Witness ==
    /\ pc = "extracted" /\ extractor = "abstract"
    /\ argument = D1("AbstractText",
                     List(<<D2("@Label", Str(<<"L">>), "#text", Str(<<"t">>)),
                            D1("#text", Str(<<"u">>))>>))
    /\ value = Str(<<"*", "*", "L", ":", "*", "*", " ", "t", "\n", "\n", "u">>)

\* an identifier list, one entry or a sequence, of texts and mappings of texts
PlainIdentifiers ==
    /\ pc = "extracted" /\ extractor = "doi"
    /\ IF IsList(argument) THEN \A i \in 1..Len(argument.v) : PlainPart(argument.v[i])
       ELSE PlainPart(argument)

\* the mapping entries of the identifier list whose type is "doi" ignoring case
DoiEntries ==
    LET entries == IF IsList(argument) THEN argument.v
                   ELSE IF argument = Str(<<>>) THEN <<>> ELSE <<argument>>
    IN  Flatten([i \in 1..Len(entries) |->
                    IF IsDict(entries[i])
                       /\ LowerStr(FieldText(entries[i], "@EIdType")) = <<"d", "o", "i">>
                    THEN <<entries[i]>> ELSE <<>>])

\* C16 as stated: the result is the text of the first entry, in input order,
\* whose type equals "doi" ignoring case, and the empty string when no entry
\* has that type.
C16_DoiExtraction ==
    PlainIdentifiers =>
        value = Str(IF DoiEntries = <<>> THEN <<>> ELSE FieldText(DoiEntries[1], "#text"))

\* C16 amended: the result is the text of the first entry whose type equals
\* "doi" ignoring case and whose text is non-empty, and the empty string when
\* there is no such entry.
C16_DoiExtractionAmended ==
    PlainIdentifiers =>
        LET texts == Flatten([i \in 1..Len(DoiEntries) |->
                                 IF FieldText(DoiEntries[i], "#text") # <<>>
                                 THEN <<FieldText(DoiEntries[i], "#text")>> ELSE <<>>])
        IN  value = Str(IF texts = <<>> THEN <<>> ELSE texts[1])

\* an entry of another type before an entry of type "DOI"
C16_Witness ==
    /\ pc = "extracted" /\ extractor = "doi"
    /\ argument = List(<<D2("@EIdType", Str(<<"p", "i", "i">>), "#text", Str(<<"d">>)),
                         D2("@EIdType", Str(<<"D", "O", "I">>), "#text", Str(<<"e">>))>>)
    /\ value = Str(<<"e">>)

\* the child of a mapping under a key, or the empty mapping
ChildOrEmpty(n, key) ==
    IF IsDict(n) /\ key \in DOMAIN n.v THEN n.v[key] ELSE Dict(<<>>)

\* the journal node of the one document of a document set
JournalNode ==
    ChildOrEmpty(ChildOrEmpty(ChildOrEmpty(DocumentsOf(xml_data)[1], "MedlineCitation"),
                              "Article"), "Journal")

\* one document with a journal mapping, built into one record
OneRecordWithJournal ==
    /\ pc = "parsed"
    /\ Len(DocumentsOf(xml_data)) = 1
    /\ Len(articles.v) = 1
    /\ IsDict(JournalNode)

\* C17: the journal title of the built record is the title string when the
\* title node is a plain string, the inner text of the title node when it is
\* a labeled mapping, and "Unknown journal" when the title is absent; it is
\* always a string.
C17_JournalTitle ==
    OneRecordWithJournal =>
        LET journal == articles.v[1].v["journal"]
        IN  /\ IsStr(journal)
            /\ "Title" \notin DOMAIN JournalNode.v => journal = Str(<<"U", "n", "k", "n", "o", "w", "n", " ", "j", "o", "u", "r", "n", "a", "l">>)
            /\ ("Title" \in DOMAIN JournalNode.v /\ IsStr(JournalNode.v["Title"]))
                   => journal = JournalNode.v["Title"]
            /\ ("Title" \in DOMAIN JournalNode.v /\ IsDict(JournalNode.v["Title"])
                   /\ "#text" \in DOMAIN JournalNode.v["Title"].v)
                   => journal = JournalNode.v["Title"].v["#text"]

\* the journal title of the record is the title node as it is
C17_JournalTitleIsTitleNode ==
    OneRecordWithJournal =>
        articles.v[1].v["journal"] =
            (IF "Title" \in DOMAIN JournalNode.v THEN JournalNode.v["Title"]
             ELSE Str(<<"U", "n", "k", "n", "o", "w", "n", " ", "j", "o", "u", "r", "n", "a", "l">>))

(***************************************************************************)
(* Claims on the rendered blocks                                           *)
(***************************************************************************)
\* text t occurs in text s
HasText(s, t) ==
    \E i \in 1..(Len(s) - Len(t) + 1) : SubSeq(s, i, i + Len(t) - 1) = t

\* the record rendered
Rendered == articles.v[picked].v

\* C19: the detail block holds the publication-types line, the abstract
\* section, the keywords line and the MeSH-terms line each if and only if the
\* value is non-empty; with all of them empty nothing follows the links.
C19_DetailOmitsEmptySections ==
    (pc = "details" /\ IsStr(rendered)) =>
        /\ HasText(rendered.v, <<"\n", "*", "*", "P", "u", "b", "l", "i", "c", "a", "t", "i", "o", "n", " ", "T", "y", "p", "e", "s", ":", "*", "*", " ">>)
               <=> Truthy(Rendered["publication_types"])
        /\ HasText(rendered.v, <<"\n", "#", "#", " ", "<clipboard>", " ", "A", "b", "s", "t", "r", "a", "c", "t", "\n", "\n">>) <=> Truthy(Rendered["abstract"])
        /\ HasText(rendered.v, <<" ", "K", "e", "y", "w", "o", "r", "d", "s", ":", "*", "*", " ">>) <=> Truthy(Rendered["keywords"])
        /\ HasText(rendered.v, <<" ", "M", "e", "S", "H", " ", "T", "e", "r", "m", "s", ":", "*", "*", " ">>) <=> Truthy(Rendered["mesh_terms"])
        /\ (~Truthy(Rendered["publication_types"]) /\ ~Truthy(Rendered["abstract"])
              /\ ~Truthy(Rendered["keywords"]) /\ ~Truthy(Rendered["mesh_terms"]))
           => EndsWith(rendered.v, <<"&", "f", "r", "o", "m", "_", "u", "i", "d", "=">> \o Rendered["pmid"].v
                                       \o <<")", " ", "-", " ", "R", "e", "l", "a", "t", "e", "d", " ", "a", "r", "t", "i", "c", "l", "e", "s">>)

\* a record with every optional field empty, rendered in detail
C19_Witness ==
    /\ pc = "details" /\ IsStr(rendered)
    /\ xml_data = SetOf(D1("MedlineCitation", Dict(<<>>)))
    /\ ~Truthy(Rendered["publication_types"]) /\ ~Truthy(Rendered["abstract"])
    /\ ~Truthy(Rendered["keywords"]) /\ ~Truthy(Rendered["mesh_terms"])
    /\ ~HasText(rendered.v, <<"A", "b", "s", "t", "r", "a", "c", "t">>)

\* a record with every optional field present, rendered in detail
C19_AllSectionsWitness ==
    /\ pc = "details" /\ IsStr(rendered)
    /\ Truthy(Rendered["publication_types"]) /\ Truthy(Rendered["abstract"])
    /\ Truthy(Rendered["keywords"]) /\ Truthy(Rendered["mesh_terms"])
    /\ HasText(rendered.v, <<" ", "M", "e", "S", "H", " ", "T", "e", "r", "m", "s", ":", "*", "*", " ">>)

\* the DOI resolver URL of a record, closed as a link target
DoiTarget == <<"]", "(", "h", "t", "t", "p", "s", ":", "/", "/", "d", "o", "i", ".", "o", "r", "g", "/">> \o Rendered["doi"].v \o <<")">>

\* C20: the summary and the detail block always link to the record page
\* keyed by the id; they hold a DOI link and a full-text link, both to
\* https://doi.org/<doi>, if and only if the DOI is non-empty.
C20_LinksBlock ==
    (pc \in {"summary", "details"} /\ IsStr(rendered) /\ IsStr(Rendered["doi"])) =>
        /\ HasText(rendered.v, <<"]", "(", "h", "t", "t", "p", "s", ":", "/", "/", "p", "u", "b", "m", "e", "d", ".", "n", "c", "b", "i", ".", "n", "l", "m", ".", "n", "i", "h", ".", "g", "o", "v", "/">> \o Rendered["pmid"].v
                                   \o <<"/", ")">>)
        /\ IF Rendered["doi"].v # <<>>
           THEN /\ \/ HasText(rendered.v, <<"D", "O", "I">> \o DoiTarget)
                   \/ HasText(rendered.v, <<"D", "O", "I", " ", "L", "i", "n", "k", "*", "*">> \o DoiTarget)
                /\ \/ HasText(rendered.v, <<"F", "u", "l", "l", " ", "T", "e", "x", "t">> \o DoiTarget)
                   \/ HasText(rendered.v, <<"F", "u", "l", "l", " ", "T", "e", "x", "t", " ", "A", "c", "c", "e", "s", "s", "*", "*">> \o DoiTarget)
           ELSE ~HasText(rendered.v, <<"h", "t", "t", "p", "s", ":", "/", "/", "d", "o", "i", ".", "o", "r", "g", "/">>)

\* a summary of a record with a DOI
C20_Witness ==
    /\ pc = "summary" /\ IsStr(rendered)
    /\ Rendered["doi"] = Str(<<"d">>)
    /\ HasText(rendered.v, <<"D", "O", "I", "]", "(", "h", "t", "t", "p", "s", ":", "/", "/", "d", "o", "i", ".", "o", "r", "g", "/", "d", ")">>)
    /\ HasText(rendered.v, <<"F", "u", "l", "l", " ", "T", "e", "x", "t", "]", "(", "h", "t", "t", "p", "s", ":", "/", "/", "d", "o", "i", ".", "o", "r", "g", "/", "d", ")">>)

\* a detail block of a record without a DOI
C20_NoDoiWitness ==
    /\ pc = "details" /\ IsStr(rendered)
    /\ Rendered["doi"] = Str(<<>>)
    /\ HasText(rendered.v, <<"*", "*", "V", "i", "e", "w", " ", "o", "n", " ", "P", "u", "b", "M", "e", "d", "*", "*", "]", "(", "h", "t", "t", "p", "s", ":", "/", "/", "p", "u", "b", "m", "e", "d", ".", "n", "c", "b", "i", ".", "n", "l", "m", ".", "n", "i", "h", ".", "g", "o", "v", "/">>)

(***************************************************************************)
(* Claims on a tool invocation                                              *)
(***************************************************************************)
\* the efetch exchange of the invocation ended with a document
Fetched == pc = "done" /\ xml_data # None

\* the text an operation returns when no document of the fetched set
\* survives
NoResultsText ==
    CASE tool = "search_pubmed" -> SearchNoDetails
      [] tool = "get_publication_details" -> NoPublicationFound(pmid)
      [] OTHER -> SimilarNoDetails(pmid)

\* the texts for a fault met by the operation or by the dispatcher
FailedTexts ==
    {SearchFailed(e) : e \in {Raise} \cup {_make_api_request(f) : f \in Faults}}
        \cup {DetailsFailed(pmid, e) : e \in {Raise} \cup {_make_api_request(f) : f \in Faults}}
        \cup {SimilarFailed(pmid, e) : e \in {Raise} \cup {_make_api_request(f) : f \in Faults}}

\* text begins with the characters of lead
StartsWith(lead, chars) == Len(chars) >= Len(lead) /\ SubSeq(chars, 1, Len(lead)) = lead

\* C18: whenever no publication survives the extraction of a fetched
\* document set, the search, details and similar operations return their
\* explanatory "no results" text: a string, none of the "failed" texts and
\* not the dispatcher's "Error executing" text.
C18_EmptyBatchNotFault ==
    (Fetched /\ articles = List(<<>>)) =>
        /\ response = NoResultsText
        /\ IsStr(response)
        /\ response \notin FailedTexts
        /\ ~StartsWith(<<"S", "e", "a", "r", "c", "h", " ", "f", "a", "i", "l", "e", "d">>, response.v)
        /\ ~StartsWith(<<"F", "a", "i", "l", "e", "d", " ", "t", "o", " ">>, response.v)
        /\ ~StartsWith(<<"E", "r", "r", "o", "r", " ", "e", "x", "e", "c", "u", "t", "i", "n", "g">>, response.v)

\* a set whose only document is malformed was fetched by a search
C18_Witness ==
    /\ Fetched /\ tool = "search_pubmed"
    /\ xml_data = SetOf(Str(<<"x">>))
    /\ articles = List(<<>>)
    /\ response = SearchNoDetails

\* an empty set was fetched for a publication's details
C18_DetailsWitness ==
    /\ Fetched /\ tool = "get_publication_details"
    /\ xml_data = SetOf(List(<<>>))
    /\ response = NoPublicationFound(<<"2">>)

\* a document without a set was fetched for the related articles
C18_SimilarWitness ==
    /\ Fetched /\ tool = "get_similar_articles"
    /\ xml_data = Dict(<<>>)
    /\ response = SimilarNoDetails(<<"1">>)

(***************************************************************************)
(* Claims on the abstract preview of a summary                              *)
(***************************************************************************)
\* a summary was rendered for a record whose abstract is a text
SummaryOfText ==
    pc = "summary" /\ IsStr(rendered) /\ IsStr(articles.v[picked].v["abstract"])

\* the characters of the summary after its links
AfterLinks == <<"\n">>

\* the characters of the summary between the PMID line and the links
AbstractLine ==
    LET article == articles.v[picked]
        bare == _format_article_summary(
                    Dict([article.v EXCEPT !["abstract"] = EMPTY]), picked).v
        closing == Len(SummaryLinks(article)) + Len(AfterLinks)
    IN  SubSeq(rendered.v, Len(bare) - closing + 1, Len(rendered.v) - closing)

ABSTRACT_LABEL == <<"\n", "*", "*", "A", "b", "s", "t", "r", "a", "c", "t", ":", "*", "*", " ">>

\* a text as the preview shows it: whole up to the limit, else its first
\* PreviewLimit characters and an ellipsis
Shown(cleaned) ==
    IF Len(cleaned) > PreviewLimit
    THEN SubSeq(cleaned, 1, PreviewLimit) \o <<".", ".", ".">>
    ELSE cleaned

\* C21 as stated: the preview of a non-empty abstract is the abstract with
\* every "**" and every double newline removed, whole when that text has at
\* most 200 characters and else its first 200 characters followed by "...";
\* an empty abstract gives no abstract line.
C21_AbstractPreview ==
    SummaryOfText =>
        LET abstract == articles.v[picked].v["abstract"].v
            cleaned == ReplaceAll(ReplaceAll(abstract, <<"*", "*">>, <<>>), <<"\n", "\n">>, <<>>)
        IN  AbstractLine = IF abstract = <<>> THEN <<>> ELSE ABSTRACT_LABEL \o Shown(cleaned)

\* C21 amended: as stated, but every double newline left after the removal of
\* the "**" markers is replaced by one space.
C21_AbstractPreviewAmended ==
    SummaryOfText =>
        LET abstract == articles.v[picked].v["abstract"].v
            cleaned == ReplaceAll(ReplaceAll(abstract, <<"*", "*">>, <<>>), <<"\n", "\n">>, <<" ">>)
        IN  AbstractLine = IF abstract = <<>> THEN <<>> ELSE ABSTRACT_LABEL \o Shown(cleaned)

\* an abstract of 200 letters, a marker, a blank line and a letter is shown
\* as its 200 letters and an ellipsis
C21_Witness ==
    /\ SummaryOfText
    /\ articles.v[picked].v["abstract"].v
           = Repeat("b", PreviewLimit) \o <<"*", "*", "\n", "\n", "a">>
    /\ AbstractLine = ABSTRACT_LABEL \o Repeat("b", PreviewLimit) \o <<".", ".", ".">>

\* an abstract of exactly 200 characters after cleaning is shown whole
C21_AtLimitWitness ==
    /\ SummaryOfText
    /\ articles.v[picked].v["abstract"].v = Repeat("b", PreviewLimit - 1) \o <<"*", "*", "a">>
    /\ AbstractLine = ABSTRACT_LABEL \o Repeat("b", PreviewLimit - 1) \o <<"a">>

\* no abstract, no abstract line
C21_EmptyWitness ==
    /\ SummaryOfText
    /\ articles.v[picked].v["abstract"] = EMPTY
    /\ AbstractLine = <<>>

(***************************************************************************)
(* Claims on the identifier and the title of a record                       *)
(***************************************************************************)
\* the keys of a mapping that hold attributes of the element
AttributeKeys == {"@EIdType", "@Label", "@MajorTopicYN", "@UI", "@Version", "@lang"}

\* one document, built into one record
OneRecord ==
    pc = "parsed" /\ Len(DocumentsOf(xml_data)) = 1 /\ Len(articles.v) = 1

CitationNode == ChildOrEmpty(DocumentsOf(xml_data)[1], "MedlineCitation")
ArticleNode == ChildOrEmpty(CitationNode, "Article")

\* the element has child elements
HasChildElements(n) == IsDict(n) /\ DOMAIN n.v \ ({"#text"} \cup AttributeKeys) # {}

\* the child under key is absent, or is an element without text and without
\* child elements
AbsentOrEmpty(n, key) ==
    \/ key \notin DOMAIN n.v
    \/ LET child == n.v[key]
       IN  \/ ~Truthy(child)
           \/ /\ IsDict(child)
              /\ ~HasChildElements(child)
              /\ ("#text" \in DOMAIN child.v => ~Truthy(child.v["#text"]))

\* the child under key is absent, or has no text of its own: it is falsy, or
\* a mapping without a truthy "#text"
WithoutOwnText(n, key) ==
    \/ key \notin DOMAIN n.v
    \/ LET child == n.v[key]
       IN  \/ ~Truthy(child)
           \/ IsDict(child) /\ ("#text" \in DOMAIN child.v => ~Truthy(child.v["#text"]))

UNKNOWN == Str(<<"U", "n", "k", "n", "o", "w", "n">>)
NO_TITLE == Str(<<"N", "o", " ", "t", "i", "t", "l", "e", " ", "a", "v", "a", "i", "l", "a", "b", "l", "e">>)

\* C22: every record has a non-empty id and a non-empty title; the id is
\* "Unknown" only when the source id is absent or empty, and the title is
\* "No title available" exactly when the source title is absent or empty.
C22_IdAndTitleDefaults ==
    OneRecord =>
        LET id == articles.v[1].v["pmid"]
            title == articles.v[1].v["title"]
        IN  /\ IsStr(id) /\ id.v # <<>>
            /\ IsStr(title) /\ title.v # <<>>
            /\ id = UNKNOWN => AbsentOrEmpty(CitationNode, "PMID")
            /\ title = NO_TITLE <=> AbsentOrEmpty(ArticleNode, "ArticleTitle")

\* id and title are non-empty strings, and each is its default exactly when
\* the source node is absent or has no text of its own
C22_DefaultsWithoutOwnText ==
    OneRecord =>
        LET id == articles.v[1].v["pmid"]
            title == articles.v[1].v["title"]
        IN  /\ IsStr(id) /\ id.v # <<>>
            /\ IsStr(title) /\ title.v # <<>>
            /\ id = UNKNOWN <=> WithoutOwnText(CitationNode, "PMID")
            /\ title = NO_TITLE <=> WithoutOwnText(ArticleNode, "ArticleTitle")

\* a title that is one inline element is built into the default title
C22_MarkupTitle ==
    /\ OneRecord
    /\ "ArticleTitle" \in DOMAIN ArticleNode.v
    /\ ArticleNode.v["ArticleTitle"] = INLINE
    /\ articles.v[1].v["title"] = NO_TITLE

(***************************************************************************)
(* Claims on the sequence-typed fields of a record                          *)
(***************************************************************************)
\* a sequence of strings
IsTextList(x) == IsList(x) /\ \A i \in 1..Len(x.v) : IsStr(x.v[i])

\* C23: in every record built by _parse_single_article, keywords,
\* publication types and MeSH terms are sequences of strings, whatever the
\* shape of the input node and also when the extractor failed inside.
C23_SequenceTypedFields ==
    pc = "parsed" =>
        \A i \in 1..Len(articles.v) :
            /\ IsTextList(articles.v[i].v["keywords"])
            /\ IsTextList(articles.v[i].v["publication_types"])
            /\ IsTextList(articles.v[i].v["mesh_terms"])

\* the three fields are sequences, and the keywords are strings
C23_SequencesWithTextKeywords ==
    pc = "parsed" =>
        \A i \in 1..Len(articles.v) :
            /\ IsTextList(articles.v[i].v["keywords"])
            /\ IsList(articles.v[i].v["publication_types"])
            /\ IsList(articles.v[i].v["mesh_terms"])

\* a publication type whose text node is a mapping is kept as that mapping
C23_MappingAmongTypes ==
    /\ pc = "parsed" /\ Len(articles.v) = 1
    /\ articles.v[1].v["publication_types"] = List(<<INLINE>>)

\* the endpoints of the requests sent so far, in order
Endpoints == [i \in 1..Len(requests) |-> requests[i].endpoint]

\* the endpoints a tool requests, in order
Plan ==
    CASE tool = "search_pubmed" -> <<"esearch.fcgi", "efetch.fcgi">>
      [] tool = "get_publication_details" -> <<"efetch.fcgi">>
      [] tool = "get_similar_articles" -> <<"elink.fcgi", "efetch.fcgi">>
      [] OTHER -> <<>>

IsPrefix(a, b) == Len(a) <= Len(b) /\ a = SubSeq(b, 1, Len(a))

\* C24: in one invocation the endpoints requested are a prefix of the tool's
\* plan (search: esearch, efetch; details: efetch; similar: elink, efetch),
\* so each is requested at most once; once a request has failed the
\* invocation is over with the tool's failure text, and neither the step
\* that meets the failure nor any later step sends a request.
C24_SingleAttempt ==
    /\ [](IsPrefix(Endpoints, Plan))
    /\ [](fault # None => pc = "done" /\ response = RequestFailed(tool, pmid, fault))
    /\ [][fault' # None => requests' = requests]_vars

\* a search whose efetch request timed out after esearch succeeded
C24_Witness ==
    /\ pc = "done" /\ tool = "search_pubmed"
    /\ Endpoints = <<"esearch.fcgi", "efetch.fcgi">>
    /\ fault = _make_api_request([kind |-> "timeout"])
    /\ response = SearchFailed(fault)

\* a similar-articles call whose elink request met an error status
C24_ElinkWitness ==
    /\ pc = "done" /\ tool = "get_similar_articles"
    /\ Endpoints = <<"elink.fcgi">>
    /\ fault = _make_api_request([kind |-> "status"])
    /\ response = SimilarFailed(pmid, fault)

\* a search whose esearch document carries an error list
C24_ErrorListWitness ==
    /\ pc = "done" /\ tool = "search_pubmed"
    /\ Endpoints = <<"esearch.fcgi">>
    /\ fault # None /\ fault \notin {_make_api_request(f) : f \in Faults}
    /\ response = SearchFailed(fault)

\* the invocation is of one of the two operations that take a pmid, and
\* the pmid argument is a text
TextPmidGiven ==
    /\ tool \in {"get_publication_details", "get_similar_articles"}
    /\ Contains("pmid", arguments)
    /\ IsStr(arguments.v["pmid"])

\* the pmid argument without its leading and trailing whitespace
StrippedPmid == Strip(arguments.v["pmid"].v)

InvalidPmid(name, p) ==
    IF name = "get_publication_details" THEN InvalidPmidForDetails(p)
    ELSE InvalidPmidForSimilar(p)

\* C26: in get_publication_details and get_similar_articles, when the
\* stripped pmid argument is not a non-empty string of digits no request is
\* ever recorded, the invocation goes from its start straight to its end,
\* and it ends with the "Invalid PMID format" text naming the stripped
\* argument; and whenever one of the two operations has recorded a request,
\* its pmid argument is a text whose stripped form is all digits and the
\* first request carries that stripped form.
C26_ValidationPrecedesRequests ==
    /\ TextPmidGiven /\ ~IsDigit(StrippedPmid)
           => /\ requests = <<>>
              /\ pc \in {"start", "done"}
              /\ pc = "done" => response = InvalidPmid(tool, StrippedPmid)
    /\ tool \in {"get_publication_details", "get_similar_articles"} /\ requests # <<>>
           => /\ TextPmidGiven
              /\ IsDigit(StrippedPmid)
              /\ requests[1].params["id"] = StrippedPmid

\* a similar-articles call with pmid '1a' has ended with the invalid-format
\* text and no request
C26_Witness ==
    /\ pc = "done" /\ tool = "get_similar_articles"
    /\ TextPmidGiven /\ StrippedPmid = <<"1", "a">>
    /\ requests = <<>>
    /\ response = InvalidPmidForSimilar(<<"1", "a">>)

\* a details call whose pmid is only whitespace has ended the same way
C26_BlankWitness ==
    /\ pc = "done" /\ tool = "get_publication_details"
    /\ TextPmidGiven /\ arguments.v["pmid"].v = <<" ">> /\ StrippedPmid = <<>>
    /\ requests = <<>>
    /\ response = InvalidPmidForDetails(<<>>)

\* a details call with pmid ' 2 ' has sent its request for '2'
C26_PaddedWitness ==
    /\ tool = "get_publication_details"
    /\ TextPmidGiven /\ arguments.v["pmid"].v = <<" ", "2", " ">>
    /\ requests = <<FetchRequest(<<"2">>)>>

\* the identifiers read from the esearch document, once it has returned
LookedUp == SearchResultIds(search_result).pmids

\* the origin-excluded identifiers read from the elink document, once it
\* has returned
Related == ServerSimilarPmids(link_result, pmid)

\* the step sends a request to the given endpoint
Sends(endpoint) ==
    /\ Len(requests') = Len(requests) + 1
    /\ requests'[Len(requests')].endpoint = endpoint

Requested(endpoint) == \E i \in 1..Len(requests) : requests[i].endpoint = endpoint

\* C27: in a search the efetch request is sent only by the step in which
\* esearch returns without a fault, after the esearch request, and only
\* when the identifier list read from the esearch document is not empty;
\* in a similar-articles call it is sent only by the step in which elink
\* returns without a fault and only when at least one identifier, each
\* different from the origin, was read from the elink document.  When the
\* identifier list read is empty the invocation ends with "No publications
\* found for query ..." (search) or "No similar articles found for PMID ..."
\* (similar) and efetch is never requested.
C27_FetchFollowsLookup ==
    /\ [][tool = "search_pubmed" /\ Sends("efetch.fcgi")
              => pc = "esearch" /\ fault' = None /\ search_result' # None]_vars
    /\ [][tool = "get_similar_articles" /\ Sends("efetch.fcgi")
              => pc = "elink" /\ fault' = None /\ link_result' # None]_vars
    /\ [](tool = "search_pubmed" /\ Requested("efetch.fcgi")
              => /\ Endpoints = <<"esearch.fcgi", "efetch.fcgi">>
                 /\ search_result # None
                 /\ ~IsRaise(LookedUp) /\ LookedUp.v # <<>>
                 /\ pmids = LookedUp.v)
    /\ [](tool = "get_similar_articles" /\ Requested("efetch.fcgi")
              => /\ Endpoints = <<"elink.fcgi", "efetch.fcgi">>
                 /\ link_result # None
                 /\ ~IsRaise(Related) /\ Related.v # <<>>
                 /\ \A i \in 1..Len(Related.v) : Related.v[i] # Str(pmid))
    /\ [](tool = "search_pubmed" /\ search_result # None /\ LookedUp = List(<<>>)
              => /\ pc = "done" /\ response = NoPublicationsFound(query)
                 /\ ~Requested("efetch.fcgi"))
    /\ [](tool = "get_similar_articles" /\ link_result # None /\ Related = List(<<>>)
              => /\ pc = "done" /\ response = NoSimilarFound(pmid)
                 /\ ~Requested("efetch.fcgi"))

\* a search whose esearch document has no identifier list has ended with
\* the no-publications text after the esearch request alone
C27_Witness ==
    /\ tool = "search_pubmed" /\ pc = "done"
    /\ search_result = SearchResultOf("Count" :> Str(<<"0">>))
    /\ LookedUp = List(<<>>)
    /\ Endpoints = <<"esearch.fcgi">>
    /\ response = NoPublicationsFound(query)

\* a similar-articles call whose only link is the origin has ended with
\* the no-similar text after the elink request alone
C27_OriginOnlyWitness ==
    /\ tool = "get_similar_articles" /\ pc = "done"
    /\ link_result = LinkResultOf(LinkSetOf(DbOf(PUBMED, LinkE(pmid))))
    /\ Related = List(<<>>)
    /\ Endpoints = <<"elink.fcgi">>
    /\ response = NoSimilarFound(pmid)

\* a search that read two identifiers has requested efetch for both
C27_FetchWitness ==
    /\ tool = "search_pubmed" /\ pc = "efetch"
    /\ LookedUp = List(<<Str(<<"1">>), Str(<<"2">>)>>)
    /\ requests[2] = FetchRequest(<<"1", ",", "2">>)

\* the identifiers the similar-articles call asked efetch for
SentIds == similar_pmids.v

\* the number of places where text t occurs in text s
CountText(s, t) ==
    Cardinality({i \in 1..(Len(s) - Len(t) + 1) : SubSeq(s, i, i + Len(t) - 1) = t})

\* the similar-articles call has ended with its report
SimilarReported ==
    /\ tool = "get_similar_articles" /\ Fetched
    /\ Truthy(articles)
    /\ response # SimilarFailed(pmid, Raise)

SimilarHead(p, k) ==
    <<"#", " ", "S", "i", "m", "i", "l", "a", "r", " ", "A", "r", "t", "i", "c", "l", "e", "s", " ", "t", "o", " ", "P", "M", "I", "D", " ">> \o p \o <<"\n", "\n", "*", "*", "F", "o", "u", "n", "d", ":", "*", "*", " ">> \o ItoA(k)
        \o <<" ", "s", "i", "m", "i", "l", "a", "r", " ", "a", "r", "t", "i", "c", "l", "e", "s", "\n", "\n", "-", "-", "-", "\n">>

\* C29: in get_similar_articles (max_results within its schema, 1 or more)
\* the identifiers asked of efetch are at most max_results, are a prefix of
\* the origin-excluded link identifiers in link order, and are sent joined
\* by commas; the report opens with "**Found:** k similar articles" where k
\* is the number of surviving records, holds exactly k summary headings,
\* the i-th numbered i, and k is at most the number of identifiers asked
\* for whenever the fetched set holds at most one document per identifier.
C29_SimilarResultBound ==
    /\ tool = "get_similar_articles" /\ Requested("efetch.fcgi")
           => /\ Len(SentIds) <= max_results
              /\ IsPrefix(SentIds, Related.v)
              /\ Len(SentIds) = max_results \/ SentIds = Related.v
              /\ requests[2].params["id"] = Join(<<",">>, SentIds).v
    /\ SimilarReported
           => /\ StartsWith(SimilarHead(pmid, Len(articles.v)), response.v)
              /\ CountText(response.v, <<"\n", "#", "#", " ">>) = Len(articles.v)
              /\ \A i \in 1..Len(articles.v) :
                     HasText(response.v, <<"-", "-", "-", "\n", "\n", "#", "#", " ">> \o ItoA(i) \o <<".", " ">>
                                             \o PyStr(articles.v[i].v["title"]))
              /\ Len(DocumentsOf(xml_data)) <= Len(SentIds)
                     => Len(articles.v) <= Len(SentIds)

\* with max_results 1 and three links other than the origin, one identifier
\* was asked for and the report is of the one record fetched
C29_Witness ==
    /\ SimilarReported /\ max_results = 1
    /\ Len(Related.v) = 3 /\ SentIds = <<Related.v[1]>>
    /\ Len(articles.v) = 1
    /\ StartsWith(SimilarHead(pmid, 1), response.v)

\* two identifiers asked for, two documents fetched, one record survived
C29_FewerSurviveWitness ==
    /\ SimilarReported
    /\ Len(SentIds) = 2 /\ Len(DocumentsOf(xml_data)) = 2 /\ Len(articles.v) = 1

\* no limit given: all three linked identifiers are asked for
C29_DefaultLimitWitness ==
    /\ tool = "get_similar_articles" /\ Requested("efetch.fcgi")
    /\ max_results = 10 /\ Len(SentIds) = 3 /\ SentIds = Related.v

\* the search has ended with its report
SearchReported ==
    /\ tool = "search_pubmed" /\ Fetched
    /\ Truthy(articles)
    /\ response # SearchFailed(Raise)

\* the term the invocation sent to esearch
TermSent == requests[1].params["term"]

DATE_FILTER == <<"*", "*", "D", "a", "t", "e", " ", "f", "i", "l", "t", "e", "r", ":", "*", "*", " ">>

\* the header lines from the sort order to the rule, with the date-filter
\* line for token t
FilterLines(t) ==
    <<"\n", "*", "*", "S", "o", "r", "t", " ", "o", "r", "d", "e", "r", ":", "*", "*", " ">> \o sort_order \o <<"\n">> \o DATE_FILTER \o t \o <<"\n", "\n", "-", "-", "-", "\n">>

\* C30: the search report holds a "**Date filter:** <token>" line, between
\* the sort-order line and the rule, exactly when the date_range token is
\* non-empty, whether or not the token added a clause to the term sent to
\* esearch; a token that matches no rule leaves the term equal to the query
\* and is shown all the same, and with an empty token the report holds no
\* date-filter text and the rule follows the sort-order line.
C30_DateFilterLine ==
    SearchReported
        => /\ HasText(response.v, DATE_FILTER) <=> date_range # <<>>
           /\ date_range # <<>> => HasText(response.v, FilterLines(date_range))
           /\ date_range = <<>>
                  => HasText(response.v, <<"\n", "*", "*", "S", "o", "r", "t", " ", "o", "r", "d", "e", "r", ":", "*", "*", " ">> \o sort_order \o <<"\n", "\n", "-", "-", "-", "\n">>)
           /\ TermSent = search_query
           /\ date_range = <<>> => TermSent = query

\* the token "soon" matches no rule: the term sent is the query alone, and
\* the report shows "**Date filter:** soon"
C30_Witness ==
    /\ SearchReported
    /\ date_range = <<"s", "o", "o", "n">>
    /\ TermSent = query
    /\ HasText(response.v, DATE_FILTER \o <<"s", "o", "o", "n", "\n">>)

\* the token "2020" is applied and shown
C30_AppliedWitness ==
    /\ SearchReported
    /\ date_range = <<"2", "0", "2", "0">>
    /\ TermSent = query \o <<" ", "A", "N", "D", " ", "2", "0", "2", "0", "[", "p", "d", "a", "t", "]">>
    /\ HasText(response.v, FilterLines(<<"2", "0", "2", "0">>))

\* an empty token given as the argument: no line
C30_EmptyTokenWitness ==
    /\ SearchReported
    /\ Contains("date_range", arguments) /\ date_range = <<>>
    /\ ~HasText(response.v, DATE_FILTER)

\* an exception leaves the tool handler: the name is none of the three
\* tools, the required argument is missing, or the pmid is not a text
\* (arguments["pmid"].strip() outside the handler's try block)
LeavesHandler ==
    \/ tool \notin {"search_pubmed", "get_publication_details", "get_similar_articles"}
    \/ tool = "search_pubmed" /\ ~Contains("query", arguments)
    \/ tool \in {"get_publication_details", "get_similar_articles"} /\ ~TextPmidGiven

ERROR_EXECUTING == <<"E", "r", "r", "o", "r", " ", "e", "x", "e", "c", "u", "t", "i", "n", "g", " ">> \o NameText(tool) \o <<":", " ">>

C28_MissingArgumentWitness ==
    /\ pc = "done" /\ tool = "search_pubmed" /\ ~Contains("query", arguments)
    /\ response = Str(<<"E", "r", "r", "o", "r", " ", "e", "x", "e", "c", "u", "t", "i", "n", "g", " ", "s", "e", "a", "r", "c", "h", "_", "p", "u", "b", "m", "e", "d", ":", " ", "'", "q", "u", "e", "r", "y", "'">>)

\* a details call whose pmid is the number 1 raised outside the try block
C28_NumberPmidWitness ==
    /\ pc = "done" /\ tool = "get_publication_details"
    /\ Contains("pmid", arguments) /\ arguments.v["pmid"] = PyInt(1)
    /\ StartsWith(ERROR_EXECUTING, response.v)

\* invocation t has returned
Returned(t) == frames[t].at = "done"

C25_InFlightWitness ==
    /\ frames[1].at = "efetch" /\ invocations[1].name = "search_pubmed"
    /\ frames[2].at = "elink"
    /\ config.api_key = <<"k">>
    /\ frames[2].sent[1].params["api_key"] = <<"k">>

\* the second invocation has returned while the first has not run yet
C25_OvertakeWitness ==
    /\ frames[1].at = "start"
    /\ Returned(2) /\ invocations[2].name = "get_publication_details"
    /\ frames[2].response = Alone(config, invocations[2]).response
    /\ Len(invocations[2].replies) = 1
====
